---- MODULE Spec2Model ----
(***************************************************************************)
(* ChainService (src/unnamed/part_000): nonce allocation, transaction      *)
(* saving and broadcasting, modelled as state machines; and LedgerService  *)
(* (src/background/services/ledger/index.ts): connecting to a Ledger.      *)
(*                                                                         *)
(* The services run on a single-threaded cooperative scheduler: an async   *)
(* method runs without interruption up to its next `await`, so every       *)
(* action below is the code between two suspension points.                 *)
(***************************************************************************)
EXTENDS Integers, Sequences, FiniteSets, Bags, TLC

(***************************************************************************)
(* Bounds of the model.                                                    *)
(***************************************************************************)
\* Highest nonce a push or a release request carries, and the cap on records.
MaxNonce == 1
\* Highest transaction count the node reports.
MaxTxCount == 1
\* Number of nonce operations recorded in nonceLog.
MaxLog == 4
\* Number of populateEVMTransactionNonce calls suspended at once.
MaxInflight == 2
\* Number of saveTransaction calls in flight at once.
MaxSaves == 2
\* Number of addAccountToTrack, loader and historic-alarm calls in flight.
MaxLoads == 1
\* Loader calls in flight at once in the overlapping-alarm scenario.
BackfillLoads == 2
\* Number of populatePartialEVMTransactionRequest calls in flight at once.
MaxPopulates == 1
\* Number of new-heads handler invocations in flight at once.
MaxHeads == 2
\* Number of getTransaction calls in flight at once.
MaxGets == 1
\* Number of confirmation watches getTransaction arms for one transaction.
MaxWatches == 1
\* Number of connectLedger calls.
MaxConnectCalls == 2
\* Number of USB connect and disconnect events.
MaxUSBEvents == 2
\* Number of onConnection calls.
MaxConnections == 2
\* The largest nonce allocated while requests are populated.
MaxPopulateNonce == 1
\* Number of distinct hashes passed to queueTransactionHashToRetrieve.
MaxQueueHashes == 2
\* Number of queueTransactionHashToRetrieve calls made by other services.
MaxEnqueues == 3
\* Number of retrievals that fail.
MaxRetrievalFailures == 2
\* The same bounds in the scenario of a queue longer than one batch, where
\* every hash is enqueued once by the other services.
DrainHashes == 6
DrainRetrievalFailures == 1
\* Number of node lookups the node answers.
MaxAnswers == 3
DrainAnswers == 2

(***************************************************************************)
(* Input domains.                                                          *)
(***************************************************************************)
ChainIDs == {"1"}

\* The same account in its checksummed and its lower-case spelling.
RawAddresses == {"0xAB", "0xab"}

toLowerCase(s) ==
  CASE s = "0xAB" -> "0xab"
    [] s = "0xCD" -> "0xcd"
    [] s = "0xEF" -> "0xef"
    [] OTHER -> s

normalizeEVMAddress(address) == toLowerCase(address)

NormalizedAddresses == {normalizeEVMAddress(a) : a \in RawAddresses}

Nonces == 0..MaxNonce

\* The inputs of the scenario "current record 7, release nonce 4".
Nonces7 == {4, 7}

VARIABLES
  \* chainID -> normalizedAddress -> last seen nonce; a JS object of objects,
  \* a missing key is a key outside DOMAIN.
  evmChainLastSeenNoncesByNormalizedAddress,
  \* populateEVMTransactionNonce calls suspended on getTransactionCount, per key.
  awaitingTransactionCount,
  \* the node: transaction count ("latest") of each account.
  nodeTransactionCount,
  \* history: the nonce operations that completed, in order.
  nonceLog

nonceVars ==
  <<evmChainLastSeenNoncesByNormalizedAddress, awaitingTransactionCount,
    nodeTransactionCount, nonceLog>>

VARIABLES
  \* db.transactions: hash -> stored record; an uncached hash is outside DOMAIN.
  dbTransactions,
  \* the saveTransaction calls in flight, a bag of calls: the position (pc),
  \* arguments and locals of each.
  saveCalls,
  \* the transaction event the last step published: {} or {event}.
  transactionEvent,
  \* armed provider.once(hash, ...) watches: captured transaction -> count.
  confirmationWatches,
  \* broadcastSignedTransaction calls, per hash: the state of sendTransaction
  \* and the outcome of the call's Promise.all.
  broadcasts,
  \* the saveTransaction call the last step settled: {} or {how it settled}.
  saveOutcome,
  \* the pending-transaction or new-heads handler invocation the last step
  \* ended: {} or {how it ended}.
  pushOutcome,
  \* history: the hashes whose one-shot confirmation watch has fired.
  firedWatches

saveVars ==
  <<dbTransactions, saveCalls, transactionEvent, confirmationWatches,
    broadcasts, saveOutcome, pushOutcome, firedWatches>>

VARIABLES
  \* transactionsToRetrieve.ethereum: the FIFO queue of hashes to retrieve.
  transactionsToRetrieve,
  \* the retrievals a handleQueuedTransactionAlarm started that have not
  \* finished, a bag: the hash, the position (pc) and the fetched view of each.
  retrievals,
  \* the batch (toHandle) the last step took from the queue; <<>> otherwise.
  toHandle,
  \* db.blocks: the hashes of the cached blocks.
  dbBlocks,
  \* hashes for which retrieveTransactionReceipt has been called.
  receiptRetrievals,
  \* history: per hash, the queueTransactionHashToRetrieve calls made since
  \* an alarm last took the hash (sinceTaken, counted up to 2) and, until the
  \* next such call, the calls that preceded that take (beforeTaken).
  enqueueCalls,
  \* history: the hashes ever passed to queueTransactionHashToRetrieve.
  everEnqueued,
  \* history: calls of queueTransactionHashToRetrieve by other services,
  \* node lookups answered, and retrievals that failed.
  queueCounters

queueVars ==
  <<transactionsToRetrieve, retrievals, toHandle, dbBlocks, receiptRetrievals,
    enqueueCalls, everEnqueued, queueCounters>>

VARIABLES
  \* db.accountAssetTransferLookups: address -> set of recorded
  \* <<startBlock, endBlock>> lookups.
  assetTransferLookups,
  \* loadRecentAssetTransfers and loadHistoricAssetTransfers calls in flight,
  \* a bag: the position (pc) and the locals of each.
  loads,
  \* the loader call the last step settled: {} or {how it settled}.
  loadOutcome,
  \* the assetTransfers event the last step published: {} or {event}.
  assetTransfersEvent,
  \* db.accountsToTrack as the loaders see it: the addresses registered by
  \* addAccountToTrack.
  trackedAccounts,
  \* history: the addresses for which a loadRecentAssetTransfers call has
  \* returned after its third attempt failed.
  abandonedRecentLoads

loadVars ==
  <<assetTransferLookups, loads, loadOutcome, assetTransfersEvent,
    trackedAccounts, abandonedRecentLoads>>

VARIABLES
  \* populatePartialEVMTransactionRequest calls suspended on estimateGasLimit,
  \* a bag: the partial request of each.
  populateCalls,
  \* the populatePartialEVMTransactionRequest call the last step settled:
  \* {} or {the partial request and what the call returned}.
  populateOutcome

populateVars == <<populateCalls, populateOutcome>>

VARIABLES
  \* getTransaction calls in flight, a bag: the hash and position (pc) of
  \* each.
  getCalls,
  \* the getTransaction call the last step settled: {} or {how it settled}.
  getOutcome

getVars == <<getCalls, getOutcome>>

VARIABLES
  \* new-heads handler invocations suspended on db.addBlock, a bag of blocks.
  headCalls,
  \* the block event the last step published: {} or {block}.
  blockEvent

headVars == <<headCalls, blockEvent>>

VARIABLES
  \* LedgerService.#currentLedgerId: {} when undefined, else {id}.
  currentLedgerId,
  \* LedgerService.transport: {} when undefined, else {the device it opens}.
  transport,
  \* what navigator.usb.getDevices() resolves with: the attached devices.
  devArray,
  \* onConnection calls in flight, a bag: the position (pc) and the locals
  \* of each, and the serial number of the call.
  connections,
  \* the number of connectLedger calls suspended on getDevices().
  connectCalls,
  \* the connectLedger call the last step settled: {} or {how it settled}.
  connectOutcome,
  \* the events the last step emitted.
  ledgerEvents,
  \* history: the serial number of the onConnection call that assigned
  \* #currentLedgerId its present value ({} when undefined), and the numbers
  \* of onConnection calls, connectLedger calls and USB events so far.
  ledgerSetBy,
  ledgerCounters

ledgerVars ==
  <<currentLedgerId, transport, devArray, connections, connectCalls,
    connectOutcome, ledgerEvents, ledgerSetBy, ledgerCounters>>

callVars == <<populateVars, getVars, headVars, ledgerVars>>

vars == <<nonceVars, saveVars, queueVars, loadVars, callVars>>

(***************************************************************************)
(* The nonce table.                                                        *)
(***************************************************************************)
HasTable(table, chainID) == chainID \in DOMAIN table

HasRecord(table, chainID, address) ==
  HasTable(table, chainID) /\ address \in DOMAIN table[chainID]

\* The record of a key as a set: {} when undefined, {nonce} otherwise.
RecordOf(table, chainID, address) ==
  IF HasRecord(table, chainID, address) THEN {table[chainID][address]} ELSE {}

\* table[chainID] ??= {}
EnsureTable(table, chainID) ==
  IF HasTable(table, chainID) THEN table
  ELSE [c \in DOMAIN table \cup {chainID} |->
          IF c = chainID THEN <<>> ELSE table[c]]

\* table[chainID][address] = value (table[chainID] exists)
SetRecord(table, chainID, address, value) ==
  [table EXCEPT ![chainID] =
     [a \in DOMAIN table[chainID] \cup {address} |->
        IF a = address THEN value ELSE table[chainID][a]]]

\* reported: {} or {the count getTransactionCount returned to the call}.
LogEntry(op, chainID, address, nonce, before, after, reported) ==
  [op |-> op, chainID |-> chainID, address |-> address, nonce |-> nonce,
   before |-> before, after |-> after, reported |-> reported]

(***************************************************************************)
(* Nonce allocator: populateEVMTransactionNonce, releaseEVMTransactionNonce *)
(* and the nonce part of the pending-transaction push handler.             *)
(***************************************************************************)
\* Mutant: the seed forgets the "- 1".
SeededRecord_NoMinusOne(count) == count

\* (await getTransactionCount(from, "latest")) - 1
SeededRecord(count) == count - 1

\* table[chainID][address] += 1; the new value is the allocated nonce
AllocatedNonce(lastSeenNonce) == lastSeenNonce + 1

\* Mutant: releasing the last seen nonce does not decrement the record.
ReleasedRecord_NoUndo(lastSeenNonce, nonce) ==
  IF nonce < lastSeenNonce THEN lastSeenNonce - 1 ELSE lastSeenNonce

\* The record releaseEVMTransactionNonce leaves for a defined lastSeenNonce.
ReleasedRecord(lastSeenNonce, nonce) ==
  IF nonce = lastSeenNonce THEN lastSeenNonce - 1
  ELSE IF nonce < lastSeenNonce THEN lastSeenNonce - 1
  ELSE lastSeenNonce

\* The record the pending-transaction handler leaves for a defined record.
PushedRecord(lastSeenNonce, nonce) ==
  IF lastSeenNonce <= nonce THEN nonce + 1 ELSE lastSeenNonce

\* populateEVMTransactionNonce on a request whose nonce is defined: the
\* request is returned as it is.
PopulateNonceAlreadyDefined(chainID, from, nonce) ==
  /\ UNCHANGED <<nonceVars, saveVars, queueVars, loadVars, callVars>>

\* populateEVMTransactionNonce on a key whose record is undefined: the chain's
\* table is created, the ??= reads undefined on its left-hand side and the
\* call suspends on getTransactionCount.
PopulateNonceSuspend(chainID, from) ==
  LET address == normalizeEVMAddress(from)
      table == evmChainLastSeenNoncesByNormalizedAddress IN
  /\ ~HasRecord(table, chainID, address)
  /\ awaitingTransactionCount[<<chainID, address>>] < MaxInflight
  /\ evmChainLastSeenNoncesByNormalizedAddress' = EnsureTable(table, chainID)
  /\ awaitingTransactionCount' =
       [awaitingTransactionCount EXCEPT ![<<chainID, address>>] = @ + 1]
  /\ UNCHANGED <<nodeTransactionCount, nonceLog, saveVars, queueVars,
                 loadVars, callVars>>

\* The suspended call resumes with the node's count: the ??= assigns
\* count - 1 (whatever the record holds by now), then the record is
\* incremented and returned.
PopulateNonceResume(chainID, address) ==
  LET table == evmChainLastSeenNoncesByNormalizedAddress
      count == nodeTransactionCount[address]
      knownNextNonce == AllocatedNonce(SeededRecord(count)) IN
  /\ awaitingTransactionCount[<<chainID, address>>] > 0
  /\ Len(nonceLog) < MaxLog
  /\ evmChainLastSeenNoncesByNormalizedAddress' =
       SetRecord(table, chainID, address, knownNextNonce)
  /\ awaitingTransactionCount' =
       [awaitingTransactionCount EXCEPT ![<<chainID, address>>] = @ - 1]
  /\ nonceLog' = Append(nonceLog,
       LogEntry("allocate", chainID, address, knownNextNonce,
                RecordOf(table, chainID, address), {knownNextNonce}, {count}))
  /\ UNCHANGED <<nodeTransactionCount, saveVars, queueVars, loadVars,
                 callVars>>

\* getTransactionCount rejects: the call throws and writes nothing.
PopulateNonceCountFails(chainID, address) ==
  /\ awaitingTransactionCount[<<chainID, address>>] > 0
  /\ awaitingTransactionCount' =
       [awaitingTransactionCount EXCEPT ![<<chainID, address>>] = @ - 1]
  /\ UNCHANGED <<evmChainLastSeenNoncesByNormalizedAddress,
                 nodeTransactionCount, nonceLog, saveVars, queueVars,
                 loadVars, callVars>>

\* populateEVMTransactionNonce on a key whose record is defined: no await is
\* reached, the call increments the record and returns it in one step.
PopulateNonceSeeded(chainID, from, cap) ==
  LET address == normalizeEVMAddress(from)
      table == evmChainLastSeenNoncesByNormalizedAddress IN
  /\ HasRecord(table, chainID, address)
  /\ Len(nonceLog) < MaxLog
  /\ LET knownNextNonce == AllocatedNonce(table[chainID][address]) IN
     /\ knownNextNonce <= cap
     /\ evmChainLastSeenNoncesByNormalizedAddress' =
          SetRecord(table, chainID, address, knownNextNonce)
     /\ nonceLog' = Append(nonceLog,
          LogEntry("allocate", chainID, address, knownNextNonce,
                   {table[chainID][address]}, {knownNextNonce}, {}))
  /\ UNCHANGED <<awaitingTransactionCount, nodeTransactionCount, saveVars,
                 queueVars, loadVars, callVars>>

\* releaseEVMTransactionNonce. Without a table for the chain the read of
\* table[chainID][address] throws a TypeError (logged as "releaseThrows");
\* with an undefined record both comparisons are false.
releaseEVMTransactionNonce(chainID, from, nonce) ==
  LET address == normalizeEVMAddress(from)
      table == evmChainLastSeenNoncesByNormalizedAddress
      before == RecordOf(table, chainID, address) IN
  /\ Len(nonceLog) < MaxLog
  /\ IF ~HasTable(table, chainID)
     THEN /\ nonceLog' = Append(nonceLog,
               LogEntry("releaseThrows", chainID, address, nonce, before,
                        before, {}))
          /\ UNCHANGED evmChainLastSeenNoncesByNormalizedAddress
     ELSE IF ~HasRecord(table, chainID, address)
     THEN /\ nonceLog' = Append(nonceLog,
               LogEntry("release", chainID, address, nonce, before, before, {}))
          /\ UNCHANGED evmChainLastSeenNoncesByNormalizedAddress
     ELSE LET lastSeenNonce == table[chainID][address]
              released == ReleasedRecord(lastSeenNonce, nonce) IN
          /\ evmChainLastSeenNoncesByNormalizedAddress' =
               SetRecord(table, chainID, address, released)
          /\ nonceLog' = Append(nonceLog,
               LogEntry("release", chainID, address, nonce, before,
                        {released}, {}))
  /\ UNCHANGED <<awaitingTransactionCount, nodeTransactionCount, saveVars,
                 queueVars, loadVars, callVars>>

\* The nonce table the pending-transaction handler of an account subscribed
\* on chainID leaves: the record of the transaction's sender is advanced when
\* it is defined and not above the transaction's nonce.
PushedTable(table, chainID, from, nonce) ==
  LET address == normalizeEVMAddress(from) IN
  IF HasRecord(table, chainID, address)
  THEN SetRecord(table, chainID, address,
                 PushedRecord(table[chainID][address], nonce))
  ELSE table

\* The pending-transaction handler up to its call of saveTransaction, which
\* writes the transaction cache only.
PushUpdateNonce(chainID, from, nonce) ==
  LET address == normalizeEVMAddress(from)
      table == evmChainLastSeenNoncesByNormalizedAddress
      pushed == PushedTable(table, chainID, from, nonce) IN
  /\ Len(nonceLog) < MaxLog
  /\ evmChainLastSeenNoncesByNormalizedAddress' = pushed
  /\ nonceLog' = Append(nonceLog,
       LogEntry("push", chainID, address, nonce,
                RecordOf(table, chainID, address),
                RecordOf(pushed, chainID, address), {}))
  /\ UNCHANGED <<awaitingTransactionCount, nodeTransactionCount, saveVars,
                 queueVars, loadVars, callVars>>

\* The node: a transaction of the account is mined.
NodeMines(address, maxCount) ==
  /\ nodeTransactionCount[address] < maxCount
  /\ nodeTransactionCount' =
       [nodeTransactionCount EXCEPT ![address] = @ + 1]
  /\ UNCHANGED <<evmChainLastSeenNoncesByNormalizedAddress,
                 awaitingTransactionCount, nonceLog, saveVars,
                 queueVars, loadVars, callVars>>

(***************************************************************************)
(* Transactions, the transaction cache and saveTransaction.                *)
(*                                                                         *)
(* A transaction object is a function from the fields it carries to their  *)
(* values; JS null is the value "null", a field the object does not carry  *)
(* is outside DOMAIN.                                                      *)
(***************************************************************************)
Hashes == {"0xh1"}

\* Transaction hashes are opaque: the k-th distinct hash that reaches the
\* retrieval queue is called HashNames[k].
HashNames ==
  <<"0xh1", "0xh2", "0xh3", "0xh4", "0xh5", "0xh6", "0xh7", "0xh8">>

\* db.getAccountsToTrack(): the sender as the transactions spell it, the
\* recipient in lower case, and an account that is neither.
AccountsToTrack == {"0xAB", "0xcd", "0xEF"}

\* A view with only hash, from and to.
PartialView(hash) == [hash |-> hash, from |-> "0xAB", to |-> "0xCD"]

\* A transaction seen without block data: a pending push, a node lookup of a
\* pending transaction, a signed transaction about to be broadcast.
PendingView(hash) ==
  [hash |-> hash, from |-> "0xAB", to |-> "0xCD",
   blockHash |-> "null", blockHeight |-> "null"]

\* The record carries block data.
HasBlockData(record) ==
  /\ "blockHash" \in DOMAIN record
  /\ record.blockHash # "null"

Receipt ==
  [blockHash |-> "0xb1", blockNumber |-> "100", status |-> "1",
   gasUsed |-> "21000"]

\* { ...a, ...b }
Spread(a, b) ==
  [f \in DOMAIN a \cup DOMAIN b |-> IF f \in DOMAIN b THEN b[f] ELSE a[f]]

enrichTransactionWithReceipt(transaction, receipt) ==
  Spread(transaction,
         [gasUsed |-> receipt.gasUsed, status |-> receipt.status,
          blockHash |-> receipt.blockHash,
          blockHeight |-> receipt.blockNumber])

PushedViews == {PendingView(h) : h \in Hashes} \cup
               {PartialView(h) : h \in Hashes}

\* The nonce of a transaction pushed while saves run: no nonce is allocated
\* meanwhile, so the push finds no record to update whatever its nonce is.
PushedNonces == {0}

\* The cached record of a hash as a set: {} when not cached.
Cached(db, hash) == IF hash \in DOMAIN db THEN {db[hash]} ELSE {}

\* Mutant: the new view replaces the cached record instead of being merged
\* over it.
MergeOver_Replace(existing, transaction) == transaction

\* { ...existing, ...transaction } with existing possibly undefined
MergeOver(existing, transaction) ==
  IF existing = {} THEN transaction
  ELSE Spread(CHOOSE e \in existing : TRUE, transaction)

\* db.addOrUpdateTransaction(tx, dataSource): the record is stored under its
\* hash with its data source.
addOrUpdateTransaction(db, tx, dataSource) ==
  [h \in DOMAIN db \cup {tx.hash} |->
     IF h = tx.hash THEN Spread(tx, [dataSource |-> dataSource]) ELSE db[h]]

\* Mutant: the addresses are compared as spelled.
ForAccounts_CaseSensitive(finalTransaction) ==
  {toLowerCase(a) : a \in
     {a \in AccountsToTrack :
        \/ finalTransaction.from = a
        \/ /\ "to" \in DOMAIN finalTransaction
           /\ finalTransaction.to = a}}

\* The addresses of the tracked accounts the transaction is from or to.
ForAccounts(finalTransaction) ==
  {toLowerCase(a) : a \in
     {a \in AccountsToTrack :
        \/ toLowerCase(finalTransaction.from) = toLowerCase(a)
        \/ /\ "to" \in DOMAIN finalTransaction
           /\ toLowerCase(finalTransaction.to) = toLowerCase(a)}}

\* saveTransaction(transaction, dataSource) is called: it runs up to its
\* await of db.getTransaction.
NewCall(transaction, dataSource, caller) ==
  [pc |-> "read", transaction |-> transaction, dataSource |-> dataSource,
   caller |-> caller, existing |-> {}, error |-> {}]

CanStartSave == BagCardinality(saveCalls) < MaxSaves

StartedSave(transaction, dataSource, caller) ==
  saveCalls (+) SetToBag({NewCall(transaction, dataSource, caller)})

\* The calls in flight once the call has returned or thrown.
Settled(call) == saveCalls (-) SetToBag({call})

\* The calls in flight once the call has moved on to its next await.
Advanced(call, next) == Settled(call) (+) SetToBag({next})

InFlight == BagToSet(saveCalls)

\* How a call settles: the value of its local `error` before its last step
\* (kept) and the error it throws, {} when it returns.
Thrown(call, error) ==
  [hash |-> call.transaction.hash, kept |-> call.error, thrown |-> error]

\* The pending-transaction handler awaits saveTransaction inside its try
\* block: whatever the call throws is caught and logged, and the handler
\* returns.
HandledPush(call, error) ==
  IF call.caller = "push"
  THEN {[handler |-> "pendingTransactions", logged |-> error,
         propagated |-> {}]}
  ELSE {}

\* The outcome of a broadcast's Promise.all once its saveTransaction settled.
SaveSettled(call, ok) ==
  IF call.caller = "broadcast"
  THEN LET b == broadcasts[call.transaction.hash] IN
       [broadcasts EXCEPT ![call.transaction.hash].save =
            IF ok THEN "ok" ELSE "failed",
          ![call.transaction.hash].outcome =
            IF b.outcome # "pending" THEN b.outcome
            ELSE IF ~ok THEN "rejectedBySave"
            ELSE IF b.send = "ok" THEN "resolved"
            ELSE "pending"]
  ELSE broadcasts

\* db.getTransaction resolves: existing is read, the call goes on to its
\* await of db.addOrUpdateTransaction.
SaveRead(call) ==
  /\ call.pc = "read"
  /\ saveCalls' = Advanced(call,
       [call EXCEPT !.pc = "write",
                    !.existing = Cached(dbTransactions, call.transaction.hash)])
  /\ transactionEvent' = {}
  /\ saveOutcome' = {}
  /\ pushOutcome' = {}
  /\ UNCHANGED <<firedWatches, dbTransactions, confirmationWatches,
                 broadcasts, nonceVars, queueVars, loadVars, callVars>>

\* db.getTransaction rejects: saveTransaction rejects, nothing is written or
\* published.
SaveReadFails(call) ==
  /\ call.pc = "read"
  /\ saveCalls' = Settled(call)
  /\ broadcasts' = SaveSettled(call, FALSE)
  /\ transactionEvent' = {}
  /\ saveOutcome' = {Thrown(call, {"read"})}
  /\ pushOutcome' = HandledPush(call, {"read"})
  /\ UNCHANGED <<firedWatches, dbTransactions, confirmationWatches,
                 nonceVars, queueVars, loadVars, callVars>>

\* db.addOrUpdateTransaction({ ...existing, ...finalTransaction }, dataSource)
\* resolves.
SaveWrite(call) ==
  LET finalTransaction == MergeOver(call.existing, call.transaction) IN
  /\ call.pc = "write"
  /\ dbTransactions' =
       addOrUpdateTransaction(dbTransactions,
                              MergeOver(call.existing, finalTransaction),
                              call.dataSource)
  /\ saveCalls' = Advanced(call, [call EXCEPT !.pc = "emit"])
  /\ transactionEvent' = {}
  /\ saveOutcome' = {}
  /\ pushOutcome' = {}
  /\ UNCHANGED <<firedWatches, confirmationWatches, broadcasts, nonceVars,
                 queueVars, loadVars, callVars>>

\* As SaveWriteFails, with the persistence error rethrown at once.
SaveWriteFails_ThrowsAtOnce(call) ==
  /\ call.pc = "write"
  /\ saveCalls' = Settled(call)
  /\ broadcasts' = SaveSettled(call, FALSE)
  /\ transactionEvent' = {}
  /\ saveOutcome' = {Thrown(call, {"persist"})}
  /\ pushOutcome' = HandledPush(call, {"persist"})
  /\ UNCHANGED <<firedWatches, dbTransactions, confirmationWatches, nonceVars,
                 queueVars, loadVars, callVars>>

\* db.addOrUpdateTransaction rejects: the error is kept and logged.
SaveWriteFails(call) ==
  /\ call.pc = "write"
  /\ saveCalls' = Advanced(call,
       [call EXCEPT !.pc = "emit", !.error = {"persist"}])
  /\ transactionEvent' = {}
  /\ saveOutcome' = {}
  /\ pushOutcome' = {}
  /\ UNCHANGED <<firedWatches, dbTransactions, confirmationWatches,
                 broadcasts, nonceVars, queueVars, loadVars, callVars>>

\* getAccountsToTrack resolves and the transaction event is emitted; the
\* call then throws the kept error, if any.
SaveEmit(call) ==
  LET finalTransaction == MergeOver(call.existing, call.transaction) IN
  /\ call.pc = "emit"
  /\ transactionEvent' = {[transaction |-> finalTransaction,
                           forAccounts |-> ForAccounts(finalTransaction)]}
  /\ saveCalls' = Settled(call)
  /\ broadcasts' = SaveSettled(call, call.error = {})
  /\ saveOutcome' = {Thrown(call, call.error)}
  /\ pushOutcome' = HandledPush(call, call.error)
  /\ UNCHANGED <<firedWatches, dbTransactions, confirmationWatches, nonceVars,
                 queueVars, loadVars, callVars>>

\* getAccountsToTrack rejects: no event, the error replaces the kept one and
\* is thrown.
SaveEmitFails(call) ==
  /\ call.pc = "emit"
  /\ saveCalls' = Settled(call)
  /\ broadcasts' = SaveSettled(call, FALSE)
  /\ transactionEvent' = {}
  /\ saveOutcome' = {Thrown(call, {"emit"})}
  /\ pushOutcome' = HandledPush(call, {"emit"})
  /\ UNCHANGED <<firedWatches, dbTransactions, confirmationWatches,
                 nonceVars, queueVars, loadVars, callVars>>

\* subscribeToTransactionConfirmation: provider.once(hash, callback) with the
\* transaction captured by the callback.
ArmedWatch(watches, transaction) ==
  [watches EXCEPT ![transaction] = @ + 1]

\* The pending-transaction handler of a subscribed account: the nonce table
\* is updated and saveTransaction(transaction, "alchemy") is called.
PendingTransactionPush(chainID, transaction, nonce) ==
  /\ CanStartSave
  /\ evmChainLastSeenNoncesByNormalizedAddress' =
       PushedTable(evmChainLastSeenNoncesByNormalizedAddress, chainID,
                   transaction.from, nonce)
  /\ saveCalls' = StartedSave(transaction, "alchemy", "push")
  /\ transactionEvent' = {}
  /\ saveOutcome' = {}
  /\ pushOutcome' = {}
  /\ UNCHANGED <<firedWatches, dbTransactions, confirmationWatches,
                 broadcasts, awaitingTransactionCount, nodeTransactionCount,
                 nonceLog, queueVars, loadVars, callVars>>

\* broadcastSignedTransaction: sendTransaction is issued, the confirmation
\* watch is armed and saveTransaction(transaction, "local") is called, all
\* before the call suspends on Promise.all.
broadcastSignedTransaction(transaction) ==
  /\ CanStartSave
  /\ broadcasts[transaction.hash].send = "none"
  /\ broadcasts' = [broadcasts EXCEPT ![transaction.hash] =
       [send |-> "pending", save |-> "pending", outcome |-> "pending"]]
  /\ confirmationWatches' = ArmedWatch(confirmationWatches, transaction)
  /\ saveCalls' = StartedSave(transaction, "local", "broadcast")
  /\ transactionEvent' = {}
  /\ saveOutcome' = {}
  /\ pushOutcome' = {}
  /\ UNCHANGED <<firedWatches, dbTransactions, nonceVars, queueVars, loadVars,
                 callVars>>

\* sendTransaction resolves.
SendTransactionSucceeds(hash) ==
  /\ broadcasts[hash].send = "pending"
  /\ broadcasts' = [broadcasts EXCEPT
       ![hash].send = "ok",
       ![hash].outcome =
         IF @ = "pending" /\ broadcasts[hash].save = "ok"
         THEN "resolved" ELSE @]
  /\ transactionEvent' = {}
  /\ saveOutcome' = {}
  /\ pushOutcome' = {}
  /\ UNCHANGED <<firedWatches, dbTransactions, saveCalls, confirmationWatches,
                 nonceVars, queueVars, loadVars, callVars>>

\* As SendTransactionFails, with the submission error caught and dropped.
SendTransactionFails_Swallowed(hash) ==
  /\ broadcasts[hash].send = "pending"
  /\ broadcasts' = [broadcasts EXCEPT
       ![hash].send = "failed",
       ![hash].outcome =
         IF @ = "pending" /\ broadcasts[hash].save = "ok"
         THEN "resolved" ELSE @]
  /\ transactionEvent' = {}
  /\ saveOutcome' = {}
  /\ pushOutcome' = {}
  /\ UNCHANGED <<firedWatches, dbTransactions, saveCalls, confirmationWatches,
                 nonceVars, queueVars, loadVars, callVars>>

\* sendTransaction rejects: Promise.all rejects with the submission error
\* unless it has rejected already; the error is logged and rethrown.
SendTransactionFails(hash) ==
  /\ broadcasts[hash].send = "pending"
  /\ broadcasts' = [broadcasts EXCEPT
       ![hash].send = "failed",
       ![hash].outcome = IF @ = "pending" THEN "rejectedBySend" ELSE @]
  /\ transactionEvent' = {}
  /\ saveOutcome' = {}
  /\ pushOutcome' = {}
  /\ UNCHANGED <<firedWatches, dbTransactions, saveCalls, confirmationWatches,
                 nonceVars, queueVars, loadVars, callVars>>

\* Mutant: the receipt is delivered and the watch stays armed.
ConfirmationDelivered_StaysArmed(transaction) ==
  /\ CanStartSave
  /\ confirmationWatches[transaction] > 0
  /\ saveCalls' = StartedSave(enrichTransactionWithReceipt(transaction, Receipt),
                              "alchemy", "watch")
  /\ transactionEvent' = {}
  /\ saveOutcome' = {}
  /\ pushOutcome' = {}
  /\ firedWatches' = firedWatches \cup {transaction.hash}
  /\ UNCHANGED <<confirmationWatches, dbTransactions, broadcasts, nonceVars,
                 queueVars, loadVars, callVars>>

\* The one-shot watch fires with the receipt: the captured transaction is
\* enriched and saveTransaction(..., "alchemy") is called (not awaited).
ConfirmationDelivered(transaction) ==
  /\ CanStartSave
  /\ confirmationWatches[transaction] > 0
  /\ confirmationWatches' = [confirmationWatches EXCEPT ![transaction] = @ - 1]
  /\ saveCalls' = StartedSave(enrichTransactionWithReceipt(transaction, Receipt),
                              "alchemy", "watch")
  /\ transactionEvent' = {}
  /\ saveOutcome' = {}
  /\ pushOutcome' = {}
  /\ firedWatches' = firedWatches \cup {transaction.hash}
  /\ UNCHANGED <<dbTransactions, broadcasts, nonceVars, queueVars, loadVars,
                 callVars>>

\* The signed transactions handed to broadcastSignedTransaction.
SignedTransactions == {PendingView(h) : h \in Hashes}

WatchedTransactions ==
  {PendingView(h) : h \in Hashes \cup {HashNames[i] : i \in DOMAIN HashNames}}

InitSave ==
  /\ dbTransactions = <<>>
  /\ saveCalls = EmptyBag
  /\ transactionEvent = {}
  /\ confirmationWatches = [t \in WatchedTransactions |-> 0]
  /\ broadcasts = [h \in Hashes |->
       [send |-> "none", save |-> "none", outcome |-> "none"]]
  /\ saveOutcome = {}
  /\ pushOutcome = {}
  /\ firedWatches = {}

NextSave ==
  \/ \E c \in ChainIDs, t \in PushedViews, n \in PushedNonces :
       PendingTransactionPush(c, t, n)
  \/ \E t \in SignedTransactions : broadcastSignedTransaction(t)
  \/ \E h \in Hashes : SendTransactionSucceeds(h)
  \/ \E h \in Hashes : SendTransactionFails(h)
  \/ \E t \in WatchedTransactions : ConfirmationDelivered(t)
  \/ \E call \in InFlight : SaveRead(call)
  \/ \E call \in InFlight : SaveReadFails(call)
  \/ \E call \in InFlight : SaveWrite(call)
  \/ \E call \in InFlight : SaveWriteFails(call)
  \/ \E call \in InFlight : SaveEmit(call)
  \/ \E call \in InFlight : SaveEmitFails(call)

(***************************************************************************)
(* The retrieval queue: queueTransactionHashToRetrieve and                 *)
(* handleQueuedTransactionAlarm.                                           *)
(***************************************************************************)
TRANSACTIONS_RETRIEVED_PER_ALARM == 5

Range(seq) == {seq[i] : i \in DOMAIN seq}

Min(a, b) == IF a < b THEN a ELSE b

\* Array.prototype.slice(begin, end) and slice(begin), 0 <= begin <= end
Slice(array, begin, end) == SubSeq(array, begin + 1, Min(end, Len(array)))

SliceFrom(array, begin) == SubSeq(array, begin + 1, Len(array))

\* The number of entries of the array that equal x.
Occurrences(array, x) == Cardinality({i \in DOMAIN array : array[i] = x})

\* Mutant: the hash is pushed without looking at the queue.
Enqueued_NoSeenCheck(queue, txHash) == Append(queue, txHash)

\* queueTransactionHashToRetrieve: the hash is pushed unless the queue holds
\* it. The method is async but has no await: it runs to its end when called.
Enqueued(queue, txHash) ==
  IF txHash \in Range(queue) THEN queue ELSE Append(queue, txHash)

\* A node lookup of a mined transaction.
MinedView(hash) ==
  [hash |-> hash, from |-> "0xAB", to |-> "0xCD",
   blockHash |-> "0xb1", blockHeight |-> "100"]

\* A retrieval the alarm starts: it runs up to its await of getTransaction.
NewRetrieval(hash) == [hash |-> hash, pc |-> "lookup", mined |-> FALSE]

\* transactionFromEthersTransaction(result, ...)
RetrievedTransaction(retrieval) ==
  IF retrieval.mined THEN MinedView(retrieval.hash)
  ELSE PendingView(retrieval.hash)

InRetrieval == BagToSet(retrievals)

\* The number of entries of the bag that are copies of the given elements.
Copies(bag, elements) ==
  LET count[es \in SUBSET elements] ==
        IF es = {} THEN 0
        ELSE LET e == CHOOSE x \in es : TRUE
             IN bag[e] + count[es \ {e}]
  IN count[elements]

\* The number of retrievals in flight for a hash.
RetrievalsOf(inFlight, hash) ==
  Copies(inFlight, {r \in BagToSet(inFlight) : r.hash = hash})


\* The bag with one new retrieval per entry of the batch.
StartedRetrievals(batch) ==
  LET hashes == Range(batch) IN
  [r \in {NewRetrieval(h) : h \in hashes} |-> Occurrences(batch, r.hash)]

\* One more call of queueTransactionHashToRetrieve(txHash) is on record.
CallCounted(calls, txHash) ==
  [calls EXCEPT ![txHash] =
     [sinceTaken |-> Min(@.sinceTaken + 1, 2), beforeTaken |-> 0]]

\* An alarm has taken the hashes of the batch.
TakenCounted(calls, batch) ==
  [h \in DOMAIN calls |->
     IF h \in Range(batch)
     THEN [sinceTaken |-> 0, beforeTaken |-> calls[h].sinceTaken]
     ELSE calls[h]]

\* The names the next hash to be enqueued can have: a hash enqueued before
\* (unless only fresh hashes arrive) or the next new name.
NextHashes(hashCount, freshOnly) ==
  (IF freshOnly THEN {} ELSE everEnqueued) \cup
    (IF Cardinality(everEnqueued) < hashCount
     THEN {HashNames[Cardinality(everEnqueued) + 1]} ELSE {})

\* Another service calls queueTransactionHashToRetrieve(network, txHash).
queueTransactionHashToRetrieve(txHash, maxEnqueues) ==
  /\ queueCounters.external < maxEnqueues
  /\ transactionsToRetrieve' = Enqueued(transactionsToRetrieve, txHash)
  /\ enqueueCalls' = CallCounted(enqueueCalls, txHash)
  /\ everEnqueued' = everEnqueued \cup {txHash}
  /\ queueCounters' = [queueCounters EXCEPT !.external = @ + 1]
  /\ toHandle' = <<>>
  /\ transactionEvent' = {}
  /\ UNCHANGED <<retrievals, dbBlocks, receiptRetrievals, dbTransactions,
                 saveCalls, confirmationWatches, broadcasts, saveOutcome,
                 pushOutcome, firedWatches, nonceVars, loadVars, callVars>>

\* Mutant: the batch is copied and the queue is left as it was.
Remaining_NotRemoved(queue) == queue

\* transactionsToRetrieve.ethereum.slice(TRANSACTIONS_RETRIEVED_PER_ALARM)
Remaining(queue) == SliceFrom(queue, TRANSACTIONS_RETRIEVED_PER_ALARM)

\* Mutant: the batch holds one entry more than the alarm's share.
Batch_OneMore(queue) == Slice(queue, 0, TRANSACTIONS_RETRIEVED_PER_ALARM + 1)

\* transactionsToRetrieve.ethereum.slice(0, TRANSACTIONS_RETRIEVED_PER_ALARM)
Batch(queue) == Slice(queue, 0, TRANSACTIONS_RETRIEVED_PER_ALARM)

\* handleQueuedTransactionAlarm: the batch is cut off the head of the queue
\* and forEach starts one retrieval per entry, each running up to its await
\* of pollingProviders.ethereum.getTransaction(hash).
handleQueuedTransactionAlarm ==
  /\ toHandle' = Batch(transactionsToRetrieve)
  /\ transactionsToRetrieve' = Remaining(transactionsToRetrieve)
  /\ retrievals' = retrievals (+) StartedRetrievals(toHandle')
  /\ enqueueCalls' = TakenCounted(enqueueCalls, toHandle')
  /\ transactionEvent' = {}
  /\ UNCHANGED <<dbBlocks, receiptRetrievals, everEnqueued, queueCounters,
                 dbTransactions, saveCalls, confirmationWatches, broadcasts,
                 saveOutcome, pushOutcome, firedWatches, nonceVars, loadVars,
                 callVars>>

\* The retrieval has ended.
Finished(retrieval) == retrievals (-) SetToBag({retrieval})

\* The retrieval has moved on to its next await.
Continued(retrieval, next) == Finished(retrieval) (+) SetToBag({next})

\* Mutant: the failure is logged and the hash is not queued again.
Requeued_Dropped(queue, hash) == queue

\* catch (error): queueTransactionHashToRetrieve(getEthereumNetwork(), hash)
Requeued(queue, hash) == Enqueued(queue, hash)

\* The retrieval threw at one of its awaits: the catch block logs the error
\* and queues the hash again.
RetrievalFailed(retrieval, maxFailures) ==
  /\ queueCounters.failures < maxFailures
  /\ retrievals' = Finished(retrieval)
  /\ transactionsToRetrieve' = Requeued(transactionsToRetrieve, retrieval.hash)
  /\ enqueueCalls' = CallCounted(enqueueCalls, retrieval.hash)
  /\ queueCounters' = [queueCounters EXCEPT !.failures = @ + 1]
  /\ toHandle' = <<>>
  /\ UNCHANGED <<dbBlocks, receiptRetrievals, everEnqueued, saveCalls,
                 confirmationWatches, broadcasts, saveOutcome, pushOutcome,
                 firedWatches, nonceVars, loadVars, callVars>>

\* The position of a hash in HashNames.
NameIndex(hash) == CHOOSE i \in DOMAIN HashNames : HashNames[i] = hash

\* The node is ready to answer the lookup of this retrieval. In the in-order
\* scenario it answers one retrieval at a time, the lowest-named hash first.
NodeAnswers(retrieval, inOrder) ==
  inOrder =>
    \A r \in InRetrieval :
      /\ r.pc = "lookup"
      /\ NameIndex(retrieval.hash) <= NameIndex(r.hash)

\* getTransaction(hash) resolves with a pending or a mined transaction; the
\* retrieval goes on to its await of saveTransaction.
RetrievalLookupResolves(retrieval, mined, maxAnswers, inOrder) ==
  /\ retrieval.pc = "lookup"
  /\ NodeAnswers(retrieval, inOrder)
  /\ queueCounters.answers < maxAnswers
  /\ queueCounters' = [queueCounters EXCEPT !.answers = @ + 1]
  /\ retrievals' = Continued(retrieval,
       [retrieval EXCEPT !.pc = "save", !.mined = mined])
  /\ toHandle' = <<>>
  /\ transactionEvent' = {}
  /\ UNCHANGED <<transactionsToRetrieve, dbBlocks, receiptRetrievals,
                 enqueueCalls, everEnqueued, dbTransactions, saveCalls,
                 confirmationWatches, broadcasts, saveOutcome, pushOutcome,
                 firedWatches, nonceVars, loadVars, callVars>>

\* getTransaction(hash) rejects, or its result cannot be converted.
RetrievalLookupFails(retrieval, maxFailures, inOrder) ==
  /\ retrieval.pc = "lookup"
  /\ NodeAnswers(retrieval, inOrder)
  /\ RetrievalFailed(retrieval, maxFailures)
  /\ transactionEvent' = {}
  /\ UNCHANGED dbTransactions

\* The record saveTransaction(transaction, "alchemy") persists.
SavedByRetrieval(db, transaction) ==
  LET existing == Cached(db, transaction.hash)
      finalTransaction == MergeOver(existing, transaction)
  IN addOrUpdateTransaction(db, MergeOver(existing, finalTransaction),
                            "alchemy")

\* The event saveTransaction(transaction, "alchemy") publishes.
PublishedByRetrieval(db, transaction) ==
  LET finalTransaction == MergeOver(Cached(db, transaction.hash), transaction)
  IN {[transaction |-> finalTransaction,
       forAccounts |-> ForAccounts(finalTransaction)]}

\* Mutant: a transaction with a blockHash gets a confirmation watch as well.
RetrievalSaved_BothBranches(retrieval) ==
  LET transaction == RetrievedTransaction(retrieval) IN
  /\ retrieval.pc = "save"
  /\ dbTransactions' = SavedByRetrieval(dbTransactions, transaction)
  /\ transactionEvent' = PublishedByRetrieval(dbTransactions, transaction)
  /\ confirmationWatches' =
       ArmedWatch(confirmationWatches, PendingView(retrieval.hash))
  /\ IF ~HasBlockData(transaction)
     THEN retrievals' = Finished(retrieval)
     ELSE retrievals' = Continued(retrieval,
               [retrieval EXCEPT !.pc = "block"])
  /\ toHandle' = <<>>
  /\ UNCHANGED <<transactionsToRetrieve, dbBlocks, receiptRetrievals,
                 enqueueCalls, everEnqueued, queueCounters, saveCalls,
                 broadcasts, saveOutcome, pushOutcome, firedWatches,
                 nonceVars, loadVars, callVars>>

\* The awaited saveTransaction(transaction, "alchemy") resolves: the record
\* is persisted and the event published. A transaction without block data
\* gets its confirmation watch and the retrieval ends; one with a blockHash
\* goes on to its await of getBlockData.
RetrievalSaved(retrieval) ==
  LET transaction == RetrievedTransaction(retrieval) IN
  /\ retrieval.pc = "save"
  /\ dbTransactions' = SavedByRetrieval(dbTransactions, transaction)
  /\ transactionEvent' = PublishedByRetrieval(dbTransactions, transaction)
  /\ IF ~HasBlockData(transaction)
     THEN /\ confirmationWatches' =
               ArmedWatch(confirmationWatches, transaction)
          /\ retrievals' = Finished(retrieval)
     ELSE /\ retrievals' = Continued(retrieval,
               [retrieval EXCEPT !.pc = "block"])
          /\ UNCHANGED confirmationWatches
  /\ toHandle' = <<>>
  /\ UNCHANGED <<transactionsToRetrieve, dbBlocks, receiptRetrievals,
                 enqueueCalls, everEnqueued, queueCounters, saveCalls,
                 broadcasts, saveOutcome, pushOutcome, firedWatches,
                 nonceVars, loadVars, callVars>>

\* The awaited saveTransaction rejects: its persistence step, its publication
\* step or both failed (or its read of the cache, and then neither ran).
RetrievalSaveFails(retrieval, persisted, published, maxFailures) ==
  LET transaction == RetrievedTransaction(retrieval) IN
  /\ retrieval.pc = "save"
  /\ ~(persisted /\ published)
  /\ RetrievalFailed(retrieval, maxFailures)
  /\ dbTransactions' =
       IF persisted THEN SavedByRetrieval(dbTransactions, transaction)
       ELSE dbTransactions
  /\ transactionEvent' =
       IF published THEN PublishedByRetrieval(dbTransactions, transaction)
       ELSE {}

\* getBlockData(network, blockHash) resolves: the block is cached, and
\* retrieveTransactionReceipt is called (not awaited); the retrieval ends.
RetrievalBlockResolves(retrieval) ==
  /\ retrieval.pc = "block"
  /\ dbBlocks' = dbBlocks \cup {RetrievedTransaction(retrieval).blockHash}
  /\ receiptRetrievals' = receiptRetrievals \cup {retrieval.hash}
  /\ retrievals' = Finished(retrieval)
  /\ toHandle' = <<>>
  /\ transactionEvent' = {}
  /\ UNCHANGED <<transactionsToRetrieve, enqueueCalls, everEnqueued,
                 queueCounters, dbTransactions, saveCalls,
                 confirmationWatches, broadcasts, saveOutcome, pushOutcome,
                 firedWatches, nonceVars, loadVars, callVars>>

\* getBlockData rejects.
RetrievalBlockFails(retrieval, maxFailures) ==
  /\ retrieval.pc = "block"
  /\ RetrievalFailed(retrieval, maxFailures)
  /\ transactionEvent' = {}
  /\ UNCHANGED dbTransactions

InitQueue ==
  /\ transactionsToRetrieve = <<>>
  /\ retrievals = EmptyBag
  /\ toHandle = <<>>
  /\ dbBlocks = {}
  /\ receiptRetrievals = {}
  /\ enqueueCalls =
       [h \in Range(HashNames) |-> [sinceTaken |-> 0, beforeTaken |-> 0]]
  /\ everEnqueued = {}
  /\ queueCounters = [external |-> 0, answers |-> 0, failures |-> 0]

NextQueueOver(hashCount, maxEnqueues, maxFailures, maxAnswers, inOrder) ==
  \/ \E h \in NextHashes(hashCount, inOrder) :
       queueTransactionHashToRetrieve(h, maxEnqueues)
  \/ handleQueuedTransactionAlarm
  \/ \E r \in InRetrieval, mined \in BOOLEAN :
       RetrievalLookupResolves(r, mined, maxAnswers, inOrder)
  \/ \E r \in InRetrieval : RetrievalLookupFails(r, maxFailures, inOrder)
  \/ \E r \in InRetrieval : RetrievalSaved(r)
  \/ \E r \in InRetrieval, persisted \in BOOLEAN, published \in BOOLEAN :
       RetrievalSaveFails(r, persisted, published, maxFailures)
  \/ \E r \in InRetrieval : RetrievalBlockResolves(r)
  \/ \E r \in InRetrieval : RetrievalBlockFails(r, maxFailures)

NextQueue ==
  NextQueueOver(MaxQueueHashes, MaxEnqueues, MaxRetrievalFailures,
                MaxAnswers, FALSE)

NextDrain ==
  NextQueueOver(DrainHashes, DrainHashes, DrainRetrievalFailures,
                DrainAnswers, TRUE)

(***************************************************************************)
(* The asset transfer loaders: addAccountToTrack, loadRecentAssetTransfers, *)
(* handleHistoricAssetTransferAlarm, loadHistoricAssetTransfers and        *)
(* loadAssetTransfers.                                                     *)
(***************************************************************************)
BLOCKS_FOR_TRANSACTION_HISTORY == 128000

BLOCKS_TO_SKIP_FOR_TRANSACTION_HISTORY == 20

HISTORIC_ASSET_TRANSFER_LOOKUPS_PER_ACCOUNT == 10

\* The accounts passed to addAccountToTrack.
LoadAddresses == {"0xAB"}

\* The block heights getBlockHeight can resolve with.
Heights == {2000020}

\* The block heights of a chain shorter than the history window.
ShortHeights == {50020}

\* The lists of transfers getAssetTransfers can resolve with, by txHash.
TransferLists == {<<>>, <<"0xh1", "0xh2">>}

\* db.getOldestAccountAssetTransferLookup / getNewestAccountAssetTransferLookup
\* as sets: {} is null, no lookup recorded for the address.
getOldestAccountAssetTransferLookup(lookups, address) ==
  IF address \in DOMAIN lookups THEN {lookups[address].oldest} ELSE {}

getNewestAccountAssetTransferLookup(lookups, address) ==
  IF address \in DOMAIN lookups THEN {lookups[address].newest} ELSE {}

\* db.recordAccountAssetTransferLookup(addressNetwork, startBlock, endBlock):
\* the recorded interval of the address is extended to cover the lookup.
recordAccountAssetTransferLookup(lookups, address, startBlock, endBlock) ==
  [a \in DOMAIN lookups \cup {address} |->
     IF a # address THEN lookups[a]
     ELSE IF address \in DOMAIN lookups
          THEN [oldest |-> IF startBlock < lookups[a].oldest
                           THEN startBlock ELSE lookups[a].oldest,
                newest |-> IF endBlock > lookups[a].newest
                           THEN endBlock ELSE lookups[a].newest]
          ELSE [oldest |-> startBlock, newest |-> endBlock]]

\* A call as it starts, suspended at its first await (pc). kind is "track"
\* (addAccountToTrack), "recent", "alarm" or "historic"; scans is the list of
\* the getAssetTransfers calls it has made, each with its outcome.
NewLoad(kind, address, pc) ==
  [kind |-> kind, address |-> address, pc |-> pc, attempt |-> 0,
   endBlock |-> {}, oldest |-> {}, newest |-> {}, scans |-> <<>>,
   transfers |-> <<>>]

CanStartLoad(maxLoads) == BagCardinality(loads) < maxLoads

InLoad == BagToSet(loads)

\* The calls in flight once the call has returned or thrown.
LoadSettled(load) == loads (-) SetToBag({load})

\* The calls in flight once the call has moved on to its next await.
LoadContinued(load, next) == LoadSettled(load) (+) SetToBag({next})

\* How a call settles.
LoadResult(load, result) ==
  [kind |-> load.kind, address |-> load.address, result |-> result,
   endBlock |-> load.endBlock, oldest |-> load.oldest,
   newest |-> load.newest, scans |-> load.scans]

\* The last scan of the call has ended with the given result.
ScanEnded(load, result) ==
  [load EXCEPT !.scans[Len(load.scans)].result = result]

\* loadAssetTransfers(addressNetwork, startBlock, endBlock) is called: it
\* runs up to its await of getAssetTransfers.
ScanIssued(load, startBlock, endBlock) ==
  [load EXCEPT
     !.pc = "fetch",
     !.scans = Append(@, [startBlock |-> startBlock, endBlock |-> endBlock,
                          result |-> "pending"])]

\* addAccountToTrack(addressNetwork) is called: it suspends on
\* db.addAccountToTrack.
addAccountToTrack(address, maxLoads) ==
  /\ CanStartLoad(maxLoads)
  /\ loads' = loads (+) SetToBag({NewLoad("track", address, "add")})
  /\ loadOutcome' = {}
  /\ assetTransfersEvent' = {}
  /\ UNCHANGED <<assetTransferLookups, trackedAccounts, abandonedRecentLoads,
                 nonceVars, saveVars, queueVars, callVars>>

\* db.addAccountToTrack resolves: the account is tracked, and
\* loadRecentAssetTransfers is called without being awaited (it runs up to
\* its await of getBlockHeight); addAccountToTrack returns. Its calls of
\* getLatestBaseAccountBalance and subscribeToAccountTransactions, not
\* awaited either, do not touch the state modelled here.
TrackAdded(load) ==
  /\ load.pc = "add"
  /\ trackedAccounts' = trackedAccounts \cup {load.address}
  /\ loads' = LoadContinued(load, NewLoad("recent", load.address, "height"))
  /\ loadOutcome' = {LoadResult(load, "resolved")}
  /\ assetTransfersEvent' = {}
  /\ UNCHANGED <<assetTransferLookups, abandonedRecentLoads, nonceVars,
                 saveVars, queueVars, callVars>>

\* db.addAccountToTrack rejects: addAccountToTrack rejects.
TrackAddFails(load) ==
  /\ load.pc = "add"
  /\ loads' = LoadSettled(load)
  /\ loadOutcome' = {LoadResult(load, "rejected")}
  /\ assetTransfersEvent' = {}
  /\ UNCHANGED <<assetTransferLookups, trackedAccounts, abandonedRecentLoads,
                 nonceVars, saveVars, queueVars, callVars>>

\* Mutant: every attempt scans the full window.
RecentFromBlock_NoBackoff(blockHeight, attempt) ==
  blockHeight - BLOCKS_FOR_TRANSACTION_HISTORY

\* fromBlock of the first, second and third attempt of
\* loadRecentAssetTransfers.
RecentFromBlock(blockHeight, attempt) ==
  CASE attempt = 1 -> blockHeight - BLOCKS_FOR_TRANSACTION_HISTORY
    [] attempt = 2 -> blockHeight - (BLOCKS_FOR_TRANSACTION_HISTORY \div 2)
    [] attempt = 3 -> blockHeight - (BLOCKS_FOR_TRANSACTION_HISTORY \div 4)

\* getBlockHeight resolves: blockHeight is set once and the first attempt
\* is started.
RecentHeightResolves(load, height) ==
  LET blockHeight == height - BLOCKS_TO_SKIP_FOR_TRANSACTION_HISTORY IN
  /\ load.kind = "recent"
  /\ load.pc = "height"
  /\ loads' = LoadContinued(load,
       ScanIssued([load EXCEPT !.endBlock = {blockHeight}, !.attempt = 1],
                  RecentFromBlock(blockHeight, 1), blockHeight))
  /\ loadOutcome' = {}
  /\ assetTransfersEvent' = {}
  /\ UNCHANGED <<assetTransferLookups, trackedAccounts, abandonedRecentLoads,
                 nonceVars, saveVars, queueVars, callVars>>

\* getBlockHeight rejects, outside any try: loadRecentAssetTransfers rejects.
RecentHeightFails(load) ==
  /\ load.kind = "recent"
  /\ load.pc = "height"
  /\ loads' = LoadSettled(load)
  /\ loadOutcome' = {LoadResult(load, "rejected")}
  /\ assetTransfersEvent' = {}
  /\ UNCHANGED <<assetTransferLookups, trackedAccounts, abandonedRecentLoads,
                 nonceVars, saveVars, queueVars, callVars>>

\* The historicAssetTransfers alarm fires: handleHistoricAssetTransferAlarm
\* suspends on db.getAccountsToTrack.
handleHistoricAssetTransferAlarm(maxLoads) ==
  /\ CanStartLoad(maxLoads)
  /\ loads' = loads (+) SetToBag({NewLoad("alarm", "", "accounts")})
  /\ loadOutcome' = {}
  /\ assetTransfersEvent' = {}
  /\ UNCHANGED <<assetTransferLookups, trackedAccounts, abandonedRecentLoads,
                 nonceVars, saveVars, queueVars, callVars>>

\* db.getAccountsToTrack resolves: loadHistoricAssetTransfers is called for
\* every tracked account, each running up to its await of
\* db.getOldestAccountAssetTransferLookup. Promise.allSettled takes their
\* outcomes, whatever they are.
AlarmAccountsRead(load) ==
  /\ load.kind = "alarm"
  /\ loads' = LoadSettled(load) (+)
       SetToBag({NewLoad("historic", a, "oldest") : a \in trackedAccounts})
  /\ loadOutcome' = {}
  /\ assetTransfersEvent' = {}
  /\ UNCHANGED <<assetTransferLookups, trackedAccounts, abandonedRecentLoads,
                 nonceVars, saveVars, queueVars, callVars>>

\* db.getAccountsToTrack rejects: the alarm handler rejects.
AlarmAccountsFail(load) ==
  /\ load.kind = "alarm"
  /\ loads' = LoadSettled(load)
  /\ loadOutcome' = {LoadResult(load, "rejected")}
  /\ assetTransfersEvent' = {}
  /\ UNCHANGED <<assetTransferLookups, trackedAccounts, abandonedRecentLoads,
                 nonceVars, saveVars, queueVars, callVars>>

\* db.getOldestAccountAssetTransferLookup resolves.
HistoricOldestRead(load) ==
  /\ load.pc = "oldest"
  /\ loads' = LoadContinued(load,
       [load EXCEPT !.pc = "newest",
                    !.oldest = getOldestAccountAssetTransferLookup(
                                 assetTransferLookups, load.address)])
  /\ loadOutcome' = {}
  /\ assetTransfersEvent' = {}
  /\ UNCHANGED <<assetTransferLookups, trackedAccounts, abandonedRecentLoads,
                 nonceVars, saveVars, queueVars, callVars>>

\* Mutant: the cap is compared with <=.
WithinHistoricCap_Inclusive(oldest, newest) ==
  newest - oldest <=
    BLOCKS_FOR_TRANSACTION_HISTORY * HISTORIC_ASSET_TRANSFER_LOOKUPS_PER_ACCOUNT

\* range < BLOCKS_FOR_TRANSACTION_HISTORY *
\*         HISTORIC_ASSET_TRANSFER_LOOKUPS_PER_ACCOUNT
WithinHistoricCap(oldest, newest) ==
  newest - oldest <
    BLOCKS_FOR_TRANSACTION_HISTORY * HISTORIC_ASSET_TRANSFER_LOOKUPS_PER_ACCOUNT

\* Mutant: with no lookup recorded, the window below block 128,000 is scanned.
HistoricNewestRead_ScansUnrecorded(load) ==
  LET newest == getNewestAccountAssetTransferLookup(assetTransferLookups,
                                                    load.address)
      read == [load EXCEPT !.newest = newest]
      scans == \/ load.oldest = {}
               \/ \E o \in load.oldest, n \in newest : WithinHistoricCap(o, n)
  IN
  /\ load.pc = "newest"
  /\ IF scans
     THEN LET o == IF load.oldest = {} THEN BLOCKS_FOR_TRANSACTION_HISTORY
                   ELSE CHOOSE o \in load.oldest : TRUE IN
          /\ loads' = LoadContinued(load,
               ScanIssued(read, o - BLOCKS_FOR_TRANSACTION_HISTORY, o))
          /\ loadOutcome' = {}
     ELSE /\ loads' = LoadSettled(load)
          /\ loadOutcome' = {LoadResult(read, "resolved")}
  /\ assetTransfersEvent' = {}
  /\ UNCHANGED <<assetTransferLookups, trackedAccounts, abandonedRecentLoads,
                 nonceVars, saveVars, queueVars, callVars>>

\* db.getNewestAccountAssetTransferLookup resolves: with both lookups known
\* and the range within the cap, one more window before oldest is scanned;
\* otherwise loadHistoricAssetTransfers returns.
HistoricNewestRead(load) ==
  LET newest == getNewestAccountAssetTransferLookup(assetTransferLookups,
                                                    load.address)
      read == [load EXCEPT !.newest = newest]
      scans == \E o \in load.oldest, n \in newest : WithinHistoricCap(o, n)
  IN
  /\ load.pc = "newest"
  /\ IF scans
     THEN LET o == CHOOSE o \in load.oldest : TRUE IN
          /\ loads' = LoadContinued(load,
               ScanIssued(read, o - BLOCKS_FOR_TRANSACTION_HISTORY, o))
          /\ loadOutcome' = {}
     ELSE /\ loads' = LoadSettled(load)
          /\ loadOutcome' = {LoadResult(read, "resolved")}
  /\ assetTransfersEvent' = {}
  /\ UNCHANGED <<assetTransferLookups, trackedAccounts, abandonedRecentLoads,
                 nonceVars, saveVars, queueVars, callVars>>

\* One of the two watermark reads rejects: loadHistoricAssetTransfers rejects.
HistoricReadFails(load) ==
  /\ load.pc \in {"oldest", "newest"}
  /\ loads' = LoadSettled(load)
  /\ loadOutcome' = {LoadResult(load, "rejected")}
  /\ assetTransfersEvent' = {}
  /\ UNCHANGED <<assetTransferLookups, trackedAccounts, abandonedRecentLoads,
                 nonceVars, saveVars, queueVars, callVars>>

\* getAssetTransfers resolves: loadAssetTransfers goes on to its await of
\* db.recordAccountAssetTransferLookup.
ScanFetched(load, assetTransfers) ==
  /\ load.pc = "fetch"
  /\ loads' = LoadContinued(load,
       [load EXCEPT !.pc = "record", !.transfers = assetTransfers])
  /\ loadOutcome' = {}
  /\ assetTransfersEvent' = {}
  /\ UNCHANGED <<assetTransferLookups, trackedAccounts, abandonedRecentLoads,
                 nonceVars, saveVars, queueVars, callVars>>

\* Mutant: the last catch block rethrows.
AfterLastFailure_Rethrown(kind) == "rejected"

\* How the caller of loadAssetTransfers ends when it has no attempt left:
\* loadRecentAssetTransfers logs and returns, loadHistoricAssetTransfers
\* lets the error through.
AfterLastFailure(kind) == IF kind = "recent" THEN "resolved" ELSE "rejected"

\* The third catch block of loadRecentAssetTransfers has run ("Final failure
\* loading recent assets for account"): the address is on record.
Abandoned(abandoned, load) ==
  IF load.kind = "recent" THEN abandoned \cup {load.address} ELSE abandoned

\* loadAssetTransfers throws. loadRecentAssetTransfers logs the error and
\* starts its next attempt with the same blockHeight, or returns after the
\* third; loadHistoricAssetTransfers rejects.
ScanFailed(load) ==
  LET failed == ScanEnded(load, "failed") IN
  /\ IF load.kind = "recent" /\ load.attempt < 3
     THEN LET blockHeight == CHOOSE b \in load.endBlock : TRUE IN
          /\ loads' = LoadContinued(load,
               ScanIssued([failed EXCEPT !.attempt = @ + 1,
                                         !.transfers = <<>>],
                          RecentFromBlock(blockHeight, load.attempt + 1),
                          blockHeight))
          /\ loadOutcome' = {}
          /\ UNCHANGED abandonedRecentLoads
     ELSE /\ loads' = LoadSettled(load)
          /\ loadOutcome' = {LoadResult(failed, AfterLastFailure(load.kind))}
          /\ abandonedRecentLoads' = Abandoned(abandonedRecentLoads, load)
  /\ assetTransfersEvent' = {}
  /\ UNCHANGED <<assetTransferLookups, trackedAccounts, nonceVars, saveVars,
                 queueVars, callVars>>

\* getAssetTransfers rejects.
ScanFetchFails(load) ==
  /\ load.pc = "fetch"
  /\ ScanFailed(load)

\* db.recordAccountAssetTransferLookup rejects.
ScanRecordFails(load) ==
  /\ load.pc = "record"
  /\ ScanFailed(load)

\* Mutant: only the first transfer is queued.
EnqueuedAll_FirstOnly(queue, txHashes) ==
  IF txHashes = <<>> THEN queue ELSE Enqueued(queue, Head(txHashes))

\* assetTransfers.forEach((a) => queueTransactionHashToRetrieve(..., a.txHash))
RECURSIVE EnqueuedAll(_, _)
EnqueuedAll(queue, txHashes) ==
  IF txHashes = <<>> THEN queue
  ELSE EnqueuedAll(Enqueued(queue, Head(txHashes)), Tail(txHashes))

RECURSIVE CallsCounted(_, _)
CallsCounted(calls, txHashes) ==
  IF txHashes = <<>> THEN calls
  ELSE CallsCounted(CallCounted(calls, Head(txHashes)), Tail(txHashes))

\* db.recordAccountAssetTransferLookup resolves: the assetTransfers event is
\* emitted and the hash of every transfer is queued for retrieval;
\* loadAssetTransfers returns, and so does its caller.
ScanRecorded(load) ==
  LET scan == load.scans[Len(load.scans)] IN
  /\ load.pc = "record"
  /\ assetTransferLookups' =
       recordAccountAssetTransferLookup(assetTransferLookups, load.address,
                                        scan.startBlock, scan.endBlock)
  /\ assetTransfersEvent' =
       {[address |-> load.address, assetTransfers |-> load.transfers]}
  /\ transactionsToRetrieve' =
       EnqueuedAll(transactionsToRetrieve, load.transfers)
  /\ enqueueCalls' = CallsCounted(enqueueCalls, load.transfers)
  /\ everEnqueued' = everEnqueued \cup Range(load.transfers)
  /\ loads' = LoadSettled(load)
  /\ loadOutcome' = {LoadResult(ScanEnded(load, "ok"), "resolved")}
  /\ UNCHANGED <<trackedAccounts, abandonedRecentLoads, retrievals, toHandle,
                 dbBlocks, receiptRetrievals, queueCounters, nonceVars,
                 saveVars, callVars>>

InitLoad ==
  /\ assetTransferLookups = <<>>
  /\ loads = EmptyBag
  /\ loadOutcome = {}
  /\ assetTransfersEvent = {}
  /\ trackedAccounts = {}
  /\ abandonedRecentLoads = {}

\* The steps of the loaders with at most maxLoads calls in flight, on a
\* chain of one of the given heights; with once, addAccountToTrack is called
\* at most once for an address.
NextLoadOver(maxLoads, once, heights) ==
  \/ \E a \in LoadAddresses :
       /\ once => /\ a \notin trackedAccounts
                   /\ \A l \in InLoad : l.kind # "track"
       /\ addAccountToTrack(a, maxLoads)
  \/ \E l \in InLoad : TrackAdded(l)
  \/ \E l \in InLoad : TrackAddFails(l)
  \/ \E l \in InLoad, height \in heights : RecentHeightResolves(l, height)
  \/ \E l \in InLoad : RecentHeightFails(l)
  \/ handleHistoricAssetTransferAlarm(maxLoads)
  \/ \E l \in InLoad : AlarmAccountsRead(l)
  \/ \E l \in InLoad : AlarmAccountsFail(l)
  \/ \E l \in InLoad : HistoricOldestRead(l)
  \/ \E l \in InLoad : HistoricNewestRead(l)
  \/ \E l \in InLoad : HistoricReadFails(l)
  \/ \E l \in InLoad, transfers \in TransferLists : ScanFetched(l, transfers)
  \/ \E l \in InLoad : ScanFetchFails(l)
  \/ \E l \in InLoad : ScanRecordFails(l)
  \/ \E l \in InLoad : ScanRecorded(l)

NextLoad == NextLoadOver(MaxLoads, FALSE, Heights)

\* Every account is added once, and historic alarms may fire while the scans
\* of an earlier alarm are still in flight.
NextBackfill == NextLoadOver(BackfillLoads, TRUE, Heights)

\* The loaders on a chain shorter than the history window.
NextShortChain == NextLoadOver(MaxLoads, FALSE, ShortHeights)

(***************************************************************************)
(* populatePartialEVMTransactionRequest and estimateGasLimit.  An optional *)
(* field of a request is a set: {} when undefined, {v} when it is v.       *)
(***************************************************************************)

\* The minimum gas limit the network allows (21000n).
MINIMUM_GAS_LIMIT == 21000

\* The gasLimit of a partial request: undefined, below the minimum, just
\* below it, the minimum, above it.
GasLimits == {{}, {5000}, {20999}, {21000}, {50000}}

\* The nonce of a partial request.
PartialNonces == {{}, {0}, {1}}

\* The account whose requests are populated.
PopulateAddresses == {"0xAB"}

PartialRequests ==
  [from : PopulateAddresses, gasLimit : GasLimits, nonce : PartialNonces]

\* What the node's estimateGas answers.
GasEstimates == {21000, 100000, 100005}

\* What estimateGas throws: an Error with a code and, possibly, an error
\* property, or a value that is not an Error.
EstimationErrors ==
  {[isError |-> TRUE, code |-> {"UNPREDICTABLE_GAS_LIMIT"},
    error |-> {"execution reverted"}],
   [isError |-> TRUE, code |-> {"UNPREDICTABLE_GAS_LIMIT"}, error |-> {}],
   [isError |-> TRUE, code |-> {"SERVER_ERROR"}, error |-> {"bad response"}],
   [isError |-> TRUE, code |-> {}, error |-> {}],
   [isError |-> FALSE, code |-> {"UNPREDICTABLE_GAS_LIMIT"},
    error |-> {"execution reverted"}]}

\* partialRequest.gasLimit ?? 0n, and the other fields of the request built
\* before the estimate: the nonce is copied from the partial request.
BuiltRequest(chainID, partialRequest) ==
  [from |-> partialRequest.from,
   gasLimit |-> IF partialRequest.gasLimit = {} THEN 0
                ELSE CHOOSE g \in partialRequest.gasLimit : TRUE,
   type |-> 2,
   chainID |-> chainID,
   nonce |-> partialRequest.nonce]

\* estimate.add(estimate.div(10))
UppedEstimate(estimate) == estimate + (estimate \div 10)

\* Mutant: the estimate replaces every gasLimit of at most the minimum.
UsesEstimate_AtMostMinimum(partialRequest) ==
  \/ partialRequest.gasLimit = {}
  \/ \E g \in partialRequest.gasLimit : g <= MINIMUM_GAS_LIMIT

\* typeof partialRequest.gasLimit === "undefined" ||
\*   partialRequest.gasLimit < 21000n
UsesEstimate(partialRequest) ==
  \/ partialRequest.gasLimit = {}
  \/ \E g \in partialRequest.gasLimit : g < MINIMUM_GAS_LIMIT

\* Mutant: the warning of an unpredictable-gas failure is dropped.
GasEstimationError_Dropped(error) == {}

\* The catch block: gasEstimationError is set for an Error whose code is
\* UNPREDICTABLE_GAS_LIMIT, to anyError.error ?? "unknown transaction error".
GasEstimationError(error) ==
  IF error.isError /\ error.code = {"UNPREDICTABLE_GAS_LIMIT"}
  THEN IF error.error = {} THEN {"unknown transaction error"}
       ELSE error.error
  ELSE {}

CanStartPopulate == BagCardinality(populateCalls) < MaxPopulates

InPopulate == BagToSet(populateCalls)

\* What a call returns, with the partial request and the outcome of the
\* estimation it was made with.
Populated(call, transactionRequest, gasEstimationError, estimation) ==
  [chainID |-> call.chainID, partialRequest |-> call.partialRequest,
   estimation |-> estimation, transactionRequest |-> transactionRequest,
   gasEstimationError |-> gasEstimationError]

\* populatePartialEVMTransactionRequest(network, partialRequest) is called:
\* the request is built and the call suspends on estimateGasLimit.
populatePartialEVMTransactionRequest(chainID, partialRequest) ==
  /\ CanStartPopulate
  /\ populateCalls' = populateCalls (+)
       SetToBag({[chainID |-> chainID, partialRequest |-> partialRequest,
                  transactionRequest |-> BuiltRequest(chainID, partialRequest)]})
  /\ populateOutcome' = {}
  /\ UNCHANGED <<nonceVars, saveVars, queueVars, loadVars, getVars, headVars,
                 ledgerVars>>

\* Mutant: the nonce is allocated when the estimate arrives.
EstimateResolves_AllocatesNonce(call, estimate) ==
  LET key == normalizeEVMAddress(call.partialRequest.from)
      table == evmChainLastSeenNoncesByNormalizedAddress
      seeded == call.chainID \in DOMAIN table /\ key \in DOMAIN table[call.chainID]
  IN
  /\ call \in InPopulate
  /\ populateCalls' = populateCalls (-) SetToBag({call})
  /\ populateOutcome' =
       {Populated(call,
          [call.transactionRequest EXCEPT
             !.gasLimit = IF UsesEstimate(call.partialRequest)
                          THEN UppedEstimate(estimate) ELSE @,
             !.nonce = IF seeded THEN {table[call.chainID][key] + 1} ELSE @],
          {}, [ok |-> TRUE, estimate |-> estimate])}
  /\ evmChainLastSeenNoncesByNormalizedAddress' =
       IF seeded
       THEN [table EXCEPT ![call.chainID][key] = @ + 1]
       ELSE table
  /\ UNCHANGED <<awaitingTransactionCount, nodeTransactionCount, nonceLog,
                 saveVars, queueVars, loadVars, getVars, headVars, ledgerVars>>

\* estimateGas resolves: estimateGasLimit returns the estimate plus a tenth,
\* which becomes the gasLimit if the caller gave none or one below the
\* minimum; the call returns with no warning.
EstimateResolves(call, estimate) ==
  /\ call \in InPopulate
  /\ populateCalls' = populateCalls (-) SetToBag({call})
  /\ populateOutcome' =
       {Populated(call,
          [call.transactionRequest EXCEPT
             !.gasLimit = IF UsesEstimate(call.partialRequest)
                          THEN UppedEstimate(estimate) ELSE @],
          {}, [ok |-> TRUE, estimate |-> estimate])}
  /\ UNCHANGED <<nonceVars, saveVars, queueVars, loadVars, getVars, headVars,
                 ledgerVars>>

\* estimateGas rejects: the error is caught, the request is returned as it
\* was built, with the warning the catch block derived.
EstimateFails(call, error) ==
  /\ call \in InPopulate
  /\ populateCalls' = populateCalls (-) SetToBag({call})
  /\ populateOutcome' =
       {Populated(call, call.transactionRequest, GasEstimationError(error),
                  [ok |-> FALSE, error |-> error])}
  /\ UNCHANGED <<nonceVars, saveVars, queueVars, loadVars, getVars, headVars,
                 ledgerVars>>

(***************************************************************************)
(* The handlers of the new-heads and pending-transaction subscriptions.    *)
(***************************************************************************)

\* The blocks the node pushes: two at the same height, one above them.
HeadBlocks ==
  {[hash |-> "0xb1", blockHeight |-> 100],
   [hash |-> "0xb2", blockHeight |-> 100],
   [hash |-> "0xb3", blockHeight |-> 101]}

\* db.addBlock(block): the block is stored under its hash.
addBlock(blocks, block) == blocks \cup {block.hash}

\* How an invocation of a subscription handler ends: the error its catch
\* block logged, and the error that left the handler.
HandlerEnded(handler, logged, propagated) ==
  {[handler |-> handler, logged |-> logged, propagated |-> propagated]}

\* Mutant: the block event is emitted before db.addBlock is awaited.
NewHeadPush_EmitsAtOnce(block) ==
  /\ BagCardinality(headCalls) < MaxHeads
  /\ headCalls' = headCalls (+) SetToBag({block})
  /\ blockEvent' = {block}
  /\ pushOutcome' = {}
  /\ UNCHANGED <<dbTransactions, saveCalls, transactionEvent,
                 confirmationWatches, broadcasts, saveOutcome, firedWatches,
                 nonceVars, queueVars, loadVars, populateVars, getVars,
                 ledgerVars>>

\* A new head is pushed and blockFromWebsocketBlock accepts it: the handler
\* suspends on db.addBlock.
NewHeadPush(block) ==
  /\ BagCardinality(headCalls) < MaxHeads
  /\ headCalls' = headCalls (+) SetToBag({block})
  /\ blockEvent' = {}
  /\ pushOutcome' = {}
  /\ UNCHANGED <<dbTransactions, saveCalls, transactionEvent,
                 confirmationWatches, broadcasts, saveOutcome, firedWatches,
                 nonceVars, queueVars, loadVars, populateVars, getVars,
                 ledgerVars>>

\* A malformed new head is pushed: blockFromWebsocketBlock throws, outside
\* any try block.
NewHeadMalformed ==
  /\ pushOutcome' = HandlerEnded("newHeads", {}, {"normalize"})
  /\ blockEvent' = {}
  /\ UNCHANGED <<dbTransactions, saveCalls, transactionEvent,
                 confirmationWatches, broadcasts, saveOutcome, firedWatches,
                 nonceVars, queueVars, loadVars, populateVars, getVars,
                 headCalls, ledgerVars>>

\* db.addBlock resolves: the block event is emitted and the handler returns.
HeadAdded(block) ==
  /\ BagIn(block, headCalls)
  /\ headCalls' = headCalls (-) SetToBag({block})
  /\ dbBlocks' = addBlock(dbBlocks, block)
  /\ blockEvent' = {block}
  /\ pushOutcome' = HandlerEnded("newHeads", {}, {})
  /\ UNCHANGED <<dbTransactions, saveCalls, transactionEvent,
                 confirmationWatches, broadcasts, saveOutcome, firedWatches,
                 transactionsToRetrieve, retrievals, toHandle,
                 receiptRetrievals, enqueueCalls, everEnqueued, queueCounters,
                 nonceVars, loadVars, populateVars, getVars, ledgerVars>>

\* db.addBlock rejects: the rejection leaves the handler, no event is
\* emitted.
HeadAddFails(block) ==
  /\ BagIn(block, headCalls)
  /\ headCalls' = headCalls (-) SetToBag({block})
  /\ blockEvent' = {}
  /\ pushOutcome' = HandlerEnded("newHeads", {}, {"cache"})
  /\ UNCHANGED <<dbTransactions, saveCalls, transactionEvent,
                 confirmationWatches, broadcasts, saveOutcome, firedWatches,
                 nonceVars, queueVars, loadVars, populateVars, getVars,
                 ledgerVars>>

\* A malformed pending transaction is pushed:
\* transactionFromAlchemyWebsocketTransaction throws inside the try block,
\* the error is logged and the handler returns.
PendingTransactionMalformed ==
  /\ pushOutcome' = HandlerEnded("pendingTransactions", {"normalize"}, {})
  /\ blockEvent' = {}
  /\ UNCHANGED <<dbTransactions, saveCalls, transactionEvent,
                 confirmationWatches, broadcasts, saveOutcome, firedWatches,
                 nonceVars, queueVars, loadVars, populateVars, getVars,
                 headCalls, ledgerVars>>

NextPush ==
  \/ \E block \in HeadBlocks : NewHeadPush(block)
  \/ NewHeadMalformed
  \/ \E block \in HeadBlocks : HeadAdded(block)
  \/ \E block \in HeadBlocks : HeadAddFails(block)
  \/ PendingTransactionMalformed

(***************************************************************************)
(* getTransaction.                                                         *)
(***************************************************************************)

InGet == BagToSet(getCalls)

\* How a getTransaction call settles: the object it returns and where it
\* comes from, or the await that rejected.
GetResult(call, source, returned, rejected) ==
  {[hash |-> call.hash, source |-> source, returned |-> returned,
    rejected |-> rejected]}

\* getTransaction(network, txHash) is called: it suspends on
\* db.getTransaction.
getTransaction(txHash) ==
  /\ BagCardinality(getCalls) < MaxGets
  /\ getCalls' = getCalls (+) SetToBag({[hash |-> txHash, pc |-> "cache"]})
  /\ getOutcome' = {}
  /\ transactionEvent' = {}
  /\ saveOutcome' = {}
  /\ pushOutcome' = {}
  /\ UNCHANGED <<dbTransactions, saveCalls, confirmationWatches, broadcasts,
                 firedWatches, nonceVars, queueVars, loadVars, populateVars,
                 headVars, ledgerVars>>

\* if (cachedTx)
ReturnsCached(cachedTx) == cachedTx # {}

\* db.getTransaction resolves: a cached transaction is returned, otherwise
\* the call suspends on the node's getTransaction.
GetCacheRead(call) ==
  LET cachedTx == Cached(dbTransactions, call.hash) IN
  /\ call.pc = "cache"
  /\ IF ReturnsCached(cachedTx)
     THEN /\ getCalls' = getCalls (-) SetToBag({call})
          /\ getOutcome' = GetResult(call, "cache", cachedTx, {})
     ELSE /\ getCalls' = (getCalls (-) SetToBag({call})) (+)
                           SetToBag({[call EXCEPT !.pc = "node"]})
          /\ getOutcome' = {}
  /\ transactionEvent' = {}
  /\ saveOutcome' = {}
  /\ pushOutcome' = {}
  /\ UNCHANGED <<dbTransactions, saveCalls, confirmationWatches, broadcasts,
                 firedWatches, nonceVars, queueVars, loadVars, populateVars,
                 headVars, ledgerVars>>

\* db.getTransaction rejects: getTransaction rejects.
GetCacheReadFails(call) ==
  /\ call.pc = "cache"
  /\ getCalls' = getCalls (-) SetToBag({call})
  /\ getOutcome' = GetResult(call, "none", {}, {"cache"})
  /\ transactionEvent' = {}
  /\ saveOutcome' = {}
  /\ pushOutcome' = {}
  /\ UNCHANGED <<dbTransactions, saveCalls, confirmationWatches, broadcasts,
                 firedWatches, nonceVars, queueVars, loadVars, populateVars,
                 headVars, ledgerVars>>

\* The node's getTransaction resolves: a transaction without block data gets
\* its confirmation watch, saveTransaction(newTransaction, "alchemy") is
\* called without being awaited, and newTransaction is returned.
GetNodeResolves(call, mined) ==
  LET newTransaction ==
        IF mined THEN MinedView(call.hash) ELSE PendingView(call.hash) IN
  /\ call.pc = "node"
  /\ CanStartSave
  /\ confirmationWatches' =
       IF ~HasBlockData(newTransaction)
       THEN ArmedWatch(confirmationWatches, newTransaction)
       ELSE confirmationWatches
  /\ saveCalls' = StartedSave(newTransaction, "alchemy", "get")
  /\ getCalls' = getCalls (-) SetToBag({call})
  /\ getOutcome' = GetResult(call, "network", {newTransaction}, {})
  /\ transactionEvent' = {}
  /\ saveOutcome' = {}
  /\ pushOutcome' = {}
  /\ UNCHANGED <<dbTransactions, broadcasts, firedWatches, nonceVars,
                 queueVars, loadVars, populateVars, headVars, ledgerVars>>

\* The node's getTransaction rejects, or knows no such transaction and
\* transactionFromEthersTransaction throws: getTransaction rejects.
GetNodeFails(call) ==
  /\ call.pc = "node"
  /\ getCalls' = getCalls (-) SetToBag({call})
  /\ getOutcome' = GetResult(call, "none", {}, {"node"})
  /\ transactionEvent' = {}
  /\ saveOutcome' = {}
  /\ pushOutcome' = {}
  /\ UNCHANGED <<dbTransactions, saveCalls, confirmationWatches, broadcasts,
                 firedWatches, nonceVars, queueVars, loadVars, populateVars,
                 headVars, ledgerVars>>

\* getTransaction calls, the saves they start and the confirmations of the
\* transactions they watch.
NextGet ==
  \/ \E h \in Hashes : getTransaction(h)
  \/ \E call \in InGet : GetCacheRead(call)
  \/ \E call \in InGet : GetCacheReadFails(call)
  \/ \E call \in InGet, mined \in BOOLEAN :
       /\ mined \/ confirmationWatches[PendingView(call.hash)] < MaxWatches
       /\ GetNodeResolves(call, mined)
  \/ \E call \in InGet : GetNodeFails(call)
  \/ \E t \in WatchedTransactions : ConfirmationDelivered(t)
  \/ \E call \in InFlight : SaveRead(call)
  \/ \E call \in InFlight : SaveReadFails(call)
  \/ \E call \in InFlight : SaveWrite(call)
  \/ \E call \in InFlight : SaveWriteFails(call)
  \/ \E call \in InFlight : SaveEmit(call)
  \/ \E call \in InFlight : SaveEmitFails(call)

InitNonce ==
  /\ evmChainLastSeenNoncesByNormalizedAddress = <<>>
  /\ awaitingTransactionCount =
       [k \in ChainIDs \X NormalizedAddresses |-> 0]
  /\ nodeTransactionCount = [a \in NormalizedAddresses |-> 0]
  /\ nonceLog = <<>>

\* The same service with the account's on-chain count at 7.
InitNonce7 ==
  /\ evmChainLastSeenNoncesByNormalizedAddress = <<>>
  /\ awaitingTransactionCount =
       [k \in ChainIDs \X NormalizedAddresses |-> 0]
  /\ nodeTransactionCount = [a \in NormalizedAddresses |-> 7]
  /\ nonceLog = <<>>

NextNonceOver(nonces, maxCount, cap) ==
  \/ \E c \in ChainIDs, from \in RawAddresses, n \in nonces :
       PopulateNonceAlreadyDefined(c, from, n)
  \/ \E c \in ChainIDs, from \in RawAddresses : PopulateNonceSuspend(c, from)
  \/ \E c \in ChainIDs, a \in NormalizedAddresses : PopulateNonceResume(c, a)
  \/ \E c \in ChainIDs, a \in NormalizedAddresses :
       PopulateNonceCountFails(c, a)
  \/ \E c \in ChainIDs, from \in RawAddresses :
       PopulateNonceSeeded(c, from, cap)
  \/ \E c \in ChainIDs, from \in RawAddresses, n \in nonces :
       releaseEVMTransactionNonce(c, from, n)
  \/ \E c \in ChainIDs, from \in RawAddresses, n \in nonces :
       PushUpdateNonce(c, from, n)
  \/ \E a \in NormalizedAddresses : NodeMines(a, maxCount)

NextNonce == NextNonceOver(Nonces, MaxTxCount, MaxNonce + 1)

NextNonce7 == NextNonceOver(Nonces7, 7 + MaxTxCount, 7 + MaxNonce)

\* Requests are populated while populateEVMTransactionNonce allocates nonces.
NextPopulate ==
  \/ \E c \in ChainIDs, r \in PartialRequests :
       populatePartialEVMTransactionRequest(c, r)
  \/ \E call \in InPopulate, e \in GasEstimates : EstimateResolves(call, e)
  \/ \E call \in InPopulate, error \in EstimationErrors :
       EstimateFails(call, error)
  \/ \E c \in ChainIDs, from \in PopulateAddresses :
       PopulateNonceSuspend(c, from)
  \/ \E c \in ChainIDs, a \in NormalizedAddresses : PopulateNonceResume(c, a)
  \/ \E c \in ChainIDs, from \in PopulateAddresses :
       PopulateNonceSeeded(c, from, MaxPopulateNonce)

InitCalls ==
  /\ populateCalls = EmptyBag
  /\ populateOutcome = {}
  /\ getCalls = EmptyBag
  /\ getOutcome = {}
  /\ headCalls = EmptyBag
  /\ blockEvent = {}

(***************************************************************************)
(* LedgerService (src/background/services/ledger/index.ts): onConnection,  *)
(* the USB listeners and connectLedger.                                    *)
(***************************************************************************)

\* The USB devices that can be attached: a Ledger Nano S, a Ledger Nano X
\* and a device that is not a Ledger.
Devices == {"nanoS", "nanoX", "other"}

\* event.device.productId / devArray[i].productId
ProductId(device) ==
  CASE device = "nanoS" -> 4117
    [] device = "nanoX" -> 16405
    [] OTHER -> 1

\* LedgerProductDatabase: knownPids 0x1015 and 0x4015.
LedgerProductDatabase ==
  [LEDGER_NANO_S |-> {4117}, LEDGER_NANO_X |-> {16405}]

TestedProductId(productId) ==
  \E e \in DOMAIN LedgerProductDatabase :
    productId \in LedgerProductDatabase[e]

\* The LedgerType enum and Object.values(LedgerType), whose first entries
\* are the names of the members in the order of their values.
LedgerType == [UNKNOWN |-> 0, LEDGER_NANO_S |-> 1, LEDGER_NANO_X |-> 2]

LedgerTypeAsString == <<"UNKNOWN", "LEDGER_NANO_S", "LEDGER_NANO_X">>

\* The address deriveAddressOnLedger(idDerviationPath, eth) resolves with.
DerivedAddress(device) ==
  CASE device = "nanoS" -> "0xA1"
    [] device = "nanoX" -> "0xB2"
    [] OTHER -> "0xC3"

\* generateLedgerId(transport, eth): [id, type]; id is {} when undefined.
generateLedgerId(device) ==
  LET extensionDeviceType ==
        CASE device = "nanoS" -> LedgerType.LEDGER_NANO_S
          [] device = "nanoX" -> LedgerType.LEDGER_NANO_X
          [] OTHER -> LedgerType.UNKNOWN
  IN IF extensionDeviceType = LedgerType.UNKNOWN
     THEN [id |-> {}, type |-> extensionDeviceType]
     ELSE [id |-> {DerivedAddress(device)}, type |-> extensionDeviceType]

\* `${LedgerTypeAsString[type]}_${id}`: the two parts of the string.
LedgerIdString(type, id) ==
  <<LedgerTypeAsString[type + 1],
    IF id = {} THEN "undefined" ELSE CHOOSE address \in id : TRUE>>

InConnection == BagToSet(connections)

\* onConnection(productId) is called: an untested product returns at once;
\* otherwise the call runs up to its await of TransportWebUSB.create().
StartedConnections(productId) ==
  IF TestedProductId(productId)
  THEN SetToBag({[serial |-> ledgerCounters.connections + 1,
                  pc |-> "transport", device |-> "none",
                  id |-> {}, type |-> LedgerType.UNKNOWN]})
  ELSE EmptyBag

ConnectionCounted(counters, productId) ==
  IF TestedProductId(productId)
  THEN [counters EXCEPT !.connections = @ + 1]
  ELSE counters

CanConnect == ledgerCounters.connections < MaxConnections

\* A "connect" event of navigator.usb, handled by #onUSBConnect. The
\* listener is registered as this.#onUSBConnect, not bound to the service:
\* with the service as its receiver (onService) it calls onConnection
\* without awaiting it; with the event target as its receiver
\* this.onConnection is not a function, and the handler rejects after its
\* productId check.
onUSBConnect(device, onService) ==
  LET productId == ProductId(device)
      counted == [ledgerCounters EXCEPT !.usbEvents = @ + 1]
  IN
  /\ ledgerCounters.usbEvents < MaxUSBEvents
  /\ CanConnect
  /\ device \notin Range(devArray)
  /\ devArray' = Append(devArray, device)
  /\ IF onService
     THEN /\ connections' = connections (+) StartedConnections(productId)
          /\ ledgerCounters' = ConnectionCounted(counted, productId)
     ELSE /\ UNCHANGED connections
          /\ ledgerCounters' = counted
  /\ connectOutcome' = {}
  /\ ledgerEvents' = {}
  /\ UNCHANGED <<currentLedgerId, transport, connectCalls, ledgerSetBy,
                 nonceVars, saveVars, queueVars, loadVars, populateVars,
                 getVars, headVars>>

\* The array without its first entry equal to x.
RECURSIVE Without(_, _)
Without(array, x) ==
  IF array = <<>> THEN <<>>
  ELSE IF Head(array) = x THEN Tail(array)
  ELSE <<Head(array)>> \o Without(Tail(array), x)

\* A "disconnect" event of navigator.usb, handled by #onUSBDisconnect,
\* whichever device was unplugged. With the service as its receiver it
\* returns when no ledger id is set, and otherwise emits "disconnected" and
\* clears the id; with the event target as its receiver the read of
\* this.#currentLedgerId throws, and nothing changes.
onUSBDisconnect(device, onService) ==
  /\ ledgerCounters.usbEvents < MaxUSBEvents
  /\ device \in Range(devArray)
  /\ devArray' = Without(devArray, device)
  /\ ledgerCounters' = [ledgerCounters EXCEPT !.usbEvents = @ + 1]
  /\ IF onService /\ currentLedgerId # {}
     THEN /\ ledgerEvents' =
               {[name |-> "disconnected", id |-> currentLedgerId,
                 type |-> LedgerType.LEDGER_NANO_S]}
          /\ currentLedgerId' = {}
          /\ ledgerSetBy' = {}
     ELSE /\ ledgerEvents' = {}
          /\ UNCHANGED <<currentLedgerId, ledgerSetBy>>
  /\ connectOutcome' = {}
  /\ UNCHANGED <<transport, connections, connectCalls, nonceVars, saveVars,
                 queueVars, loadVars, populateVars, getVars, headVars>>

\* connectLedger() is called: it suspends on navigator.usb.getDevices().
connectLedger ==
  /\ ledgerCounters.connects < MaxConnectCalls
  /\ connectCalls' = connectCalls + 1
  /\ ledgerCounters' = [ledgerCounters EXCEPT !.connects = @ + 1]
  /\ connectOutcome' = {}
  /\ ledgerEvents' = {}
  /\ UNCHANGED <<currentLedgerId, transport, devArray, connections,
                 ledgerSetBy, nonceVars, saveVars, queueVars, loadVars,
                 populateVars, getVars, headVars>>

\* How a connectLedger call settles: the value it resolves with, the
\* onConnection call it started, and the call that had assigned the value.
ConnectResult(result, value, triggered, setBy) ==
  [result |-> result, value |-> value, triggered |-> triggered,
   setBy |-> setBy]

\* getDevices() resolves. With no device connectLedger throws; otherwise it
\* calls onConnection(devArray[0].productId) without awaiting it and
\* returns this.#currentLedgerId as it is at that moment.
ConnectDevicesRead ==
  /\ connectCalls > 0
  /\ connectCalls' = connectCalls - 1
  /\ IF Len(devArray) = 0
     THEN /\ connectOutcome' = {ConnectResult("rejected", {}, {}, {})}
          /\ UNCHANGED <<connections, ledgerCounters>>
     ELSE LET productId == ProductId(devArray[1])
              started == StartedConnections(productId)
          IN
          /\ CanConnect
          /\ connections' = connections (+) started
          /\ ledgerCounters' = ConnectionCounted(ledgerCounters, productId)
          /\ connectOutcome' =
               {ConnectResult("resolved", currentLedgerId,
                              {c.serial : c \in BagToSet(started)},
                              ledgerSetBy)}
  /\ ledgerEvents' = {}
  /\ UNCHANGED <<currentLedgerId, transport, devArray, ledgerSetBy,
                 nonceVars, saveVars, queueVars, loadVars, populateVars,
                 getVars, headVars>>

\* getDevices() rejects: connectLedger rejects.
ConnectDevicesFail ==
  /\ connectCalls > 0
  /\ connectCalls' = connectCalls - 1
  /\ connectOutcome' = {ConnectResult("rejected", {}, {}, {})}
  /\ ledgerEvents' = {}
  /\ UNCHANGED <<currentLedgerId, transport, devArray, connections,
                 ledgerSetBy, ledgerCounters, nonceVars, saveVars, queueVars,
                 loadVars, populateVars, getVars, headVars>>

\* The onConnection call has returned or thrown.
ConnectionEnded(connection) == connections (-) SetToBag({connection})

\* The onConnection call has moved on to its next await.
ConnectionContinued(connection, next) ==
  ConnectionEnded(connection) (+) SetToBag({next})

\* The Ledger devices TransportWebUSB.create() can open.
LedgerDevices == {d \in Range(devArray) : TestedProductId(ProductId(d))}

\* TransportWebUSB.create() resolves with a transport to an attached Ledger:
\* this.transport is assigned, and generateLedgerId(this.transport, eth) is
\* called and runs up to its await of the derived address.
ConnectionTransportCreated(connection, device) ==
  /\ connection.pc = "transport"
  /\ device \in LedgerDevices
  /\ transport' = {device}
  /\ connections' = ConnectionContinued(connection,
       [connection EXCEPT !.pc = "id", !.device = device])
  /\ connectOutcome' = {}
  /\ ledgerEvents' = {}
  /\ UNCHANGED <<currentLedgerId, devArray, connectCalls, ledgerSetBy,
                 ledgerCounters, nonceVars, saveVars, queueVars, loadVars,
                 populateVars, getVars, headVars>>

\* generateLedgerId resolves with [id, type]; the call goes on to its await
\* of eth.getAppConfiguration().
ConnectionIdGenerated(connection) ==
  LET generated == generateLedgerId(connection.device) IN
  /\ connection.pc = "id"
  /\ connections' = ConnectionContinued(connection,
       [connection EXCEPT !.pc = "config", !.id = generated.id,
                          !.type = generated.type])
  /\ connectOutcome' = {}
  /\ ledgerEvents' = {}
  /\ UNCHANGED <<currentLedgerId, transport, devArray, connectCalls,
                 ledgerSetBy, ledgerCounters, nonceVars, saveVars, queueVars,
                 loadVars, populateVars, getVars, headVars>>

\* getAppConfiguration() resolves: #currentLedgerId is assigned, "connected"
\* is emitted and the call suspends on db.getAllAccountsByLedgerId.
ConnectionConfigRead(connection) ==
  LET id == LedgerIdString(connection.type, connection.id) IN
  /\ connection.pc = "config"
  /\ currentLedgerId' = {id}
  /\ ledgerSetBy' = {connection.serial}
  /\ ledgerEvents' =
       {[name |-> "connected", id |-> {id}, type |-> connection.type]}
  /\ connections' = ConnectionContinued(connection,
       [connection EXCEPT !.pc = "accounts"])
  /\ connectOutcome' = {}
  /\ UNCHANGED <<transport, devArray, connectCalls, ledgerCounters,
                 nonceVars, saveVars, queueVars, loadVars, populateVars,
                 getVars, headVars>>

\* db.getAllAccountsByLedgerId resolves: "ledgerAdded" is emitted, with the
\* id as it is now, unless accounts of the ledger are known; onConnection
\* returns.
ConnectionAccountsRead(connection, known) ==
  /\ connection.pc = "accounts"
  /\ connections' = ConnectionEnded(connection)
  /\ ledgerEvents' =
       IF known THEN {}
       ELSE {[name |-> "ledgerAdded", id |-> currentLedgerId,
              type |-> connection.type]}
  /\ connectOutcome' = {}
  /\ UNCHANGED <<currentLedgerId, transport, devArray, connectCalls,
                 ledgerSetBy, ledgerCounters, nonceVars, saveVars, queueVars,
                 loadVars, populateVars, getVars, headVars>>

\* One of the awaits of onConnection rejects: the call rejects, and nobody
\* awaits it.
ConnectionFails(connection) ==
  /\ connections' = ConnectionEnded(connection)
  /\ connectOutcome' = {}
  /\ ledgerEvents' = {}
  /\ UNCHANGED <<currentLedgerId, transport, devArray, connectCalls,
                 ledgerSetBy, ledgerCounters, nonceVars, saveVars, queueVars,
                 loadVars, populateVars, getVars, headVars>>

InitLedger ==
  /\ currentLedgerId = {}
  /\ transport = {}
  /\ devArray = <<>>
  /\ connections = EmptyBag
  /\ connectCalls = 0
  /\ connectOutcome = {}
  /\ ledgerEvents = {}
  /\ ledgerSetBy = {}
  /\ ledgerCounters = [connections |-> 0, connects |-> 0, usbEvents |-> 0]

NextLedger ==
  \/ \E d \in Devices, onService \in BOOLEAN : onUSBConnect(d, onService)
  \/ \E d \in Devices, onService \in BOOLEAN : onUSBDisconnect(d, onService)
  \/ connectLedger
  \/ ConnectDevicesRead
  \/ ConnectDevicesFail
  \/ \E c \in InConnection, d \in Devices : ConnectionTransportCreated(c, d)
  \/ \E c \in InConnection : ConnectionIdGenerated(c)
  \/ \E c \in InConnection : ConnectionConfigRead(c)
  \/ \E c \in InConnection, known \in BOOLEAN : ConnectionAccountsRead(c, known)
  \/ \E c \in InConnection : ConnectionFails(c)

Init ==
  InitNonce /\ InitSave /\ InitQueue /\ InitLoad /\ InitCalls /\ InitLedger

SpecNonce == Init /\ [][NextNonce]_vars

Init7 ==
  InitNonce7 /\ InitSave /\ InitQueue /\ InitLoad /\ InitCalls /\ InitLedger

SpecNonce7 == Init7 /\ [][NextNonce7]_vars

SpecSave == Init /\ [][NextSave]_vars

SpecQueue == Init /\ [][NextQueue]_vars

SpecDrain == Init /\ [][NextDrain]_vars

SpecLoad == Init /\ [][NextLoad]_vars

SpecBackfill == Init /\ [][NextBackfill]_vars

SpecShortChain == Init /\ [][NextShortChain]_vars

SpecPopulate == Init /\ [][NextPopulate]_vars

SpecPush == Init /\ [][NextPush]_vars

SpecGet == Init /\ [][NextGet]_vars

SpecLedger == Init /\ [][NextLedger]_vars

(***************************************************************************)
(* Properties of the nonce allocator.                                      *)
(***************************************************************************)
\* The completed operations of one key, in order.
KeyLog(chainID, address) ==
  SelectSeq(nonceLog, LAMBDA e : e.chainID = chainID /\ e.address = address)

IsRelease(e) == e.op \in {"release", "releaseThrows"}

NoReleaseBetween(L, i, j) == \A m \in (i + 1)..(j - 1) : ~IsRelease(L[m])

\* An allocation by a call that found the record defined (no await).
IsAtomicAllocate(e) == e.op = "allocate" /\ e.reported = {}

\* No call resumed from getTransactionCount onto a record another call had
\* written meanwhile, and no call is suspended now.
RanOneAfterAnother(chainID, address) ==
  /\ awaitingTransactionCount[<<chainID, address>>] = 0
  /\ \A e \in {KeyLog(chainID, address)[i] :
                 i \in 1..Len(KeyLog(chainID, address))} :
       e.reported # {} => e.before = {}

\* C1: two populateEVMTransactionNonce calls for the same key, with no
\* release between them, never return the same nonce, whatever the
\* interleaving (calls suspended on getTransactionCount included).
C1_NoNonceReturnedTwice ==
  \A c \in ChainIDs, a \in NormalizedAddresses :
    LET L == KeyLog(c, a) IN
    \A i \in 1..Len(L), j \in 1..Len(L) :
      (/\ i < j
       /\ L[i].op = "allocate"
       /\ L[j].op = "allocate"
       /\ NoReleaseBetween(L, i, j)) => L[i].nonce # L[j].nonce

\* C2: calls of one key that run one after another, with no release and no
\* push, return reportedTxCount, reportedTxCount + 1, ...; only the first
\* call queries the node.
C2_SequentialAllocationsCountUp ==
  \A c \in ChainIDs, a \in NormalizedAddresses :
    LET L == KeyLog(c, a) IN
    (/\ RanOneAfterAnother(c, a)
     /\ \A i \in 1..Len(L) : L[i].op = "allocate")
    => \A k \in 1..Len(L) :
         /\ L[1].reported # {}
         /\ \A reportedTxCount \in L[1].reported :
              L[k].nonce = reportedTxCount + k - 1
         /\ (k > 1 => L[k].reported = {})
         /\ (k > 1 => L[k].nonce > L[k - 1].nonce)

\* Three calls of one key ran one after another and the node's count moved on
\* after the first: a later query would have reported another count.
C2_Witness ==
  \E c \in ChainIDs, a \in NormalizedAddresses :
    LET L == KeyLog(c, a) IN
    /\ RanOneAfterAnother(c, a)
    /\ Len(L) >= 3
    /\ \A i \in 1..Len(L) : L[i].op = "allocate"
    /\ nodeTransactionCount[a] \notin L[1].reported

\* The places of the log where a key with a record sees allocate, release of
\* the returned nonce, allocate, one right after the other.
AllocateReleaseAllocate(L, i) ==
  /\ i + 2 <= Len(L)
  /\ IsAtomicAllocate(L[i])
  /\ L[i + 1].op = "release"
  /\ L[i + 1].nonce = L[i].nonce
  /\ IsAtomicAllocate(L[i + 2])

\* C3: allocate, release of the returned nonce, allocate returns the same
\* nonce twice, and the release restores the record to its value before the
\* first allocate.
C3_ReleaseThenReallocate ==
  \A c \in ChainIDs, a \in NormalizedAddresses :
    LET L == KeyLog(c, a) IN
    \A i \in 1..Len(L) :
      AllocateReleaseAllocate(L, i) =>
        /\ L[i + 2].nonce = L[i].nonce
        /\ L[i + 1].after = L[i].before

C3_Witness ==
  \E c \in ChainIDs, a \in NormalizedAddresses :
    \E i \in 1..Len(KeyLog(c, a)) : AllocateReleaseAllocate(KeyLog(c, a), i)

\* C4: a release of a nonce n strictly below the record sets the record to
\* n - 1, and the allocation that follows returns n.
C4_ReleaseBelowCollapsesToNonce ==
  \A c \in ChainIDs, a \in NormalizedAddresses :
    LET L == KeyLog(c, a) IN
    \A i \in 1..Len(L) :
      (/\ L[i].op = "release"
       /\ \E r \in L[i].before : L[i].nonce < r)
      => /\ L[i].after = {L[i].nonce - 1}
         /\ (i < Len(L) /\ IsAtomicAllocate(L[i + 1])
               => L[i + 1].nonce = L[i].nonce)

\* C5: with the record at 7, release of nonce 4 makes the next allocation
\* return 5.
C5_Release4At7ThenAllocate5 ==
  \A c \in ChainIDs, a \in NormalizedAddresses :
    LET L == KeyLog(c, a) IN
    \A i \in 1..Len(L) :
      (/\ i < Len(L)
       /\ L[i].op = "release"
       /\ L[i].before = {7}
       /\ L[i].nonce = 4
       /\ IsAtomicAllocate(L[i + 1])) => L[i + 1].nonce = 5

\* C6: no step other than a release lowers the record of a key.
C6_RecordOnlyLoweredByRelease ==
  \A i \in 1..Len(nonceLog) :
    LET e == nonceLog[i] IN
    ~IsRelease(e) => \A b \in e.before, n \in e.after : n >= b

\* C7: a push with nonce n on a key with record r leaves n + 1 if n >= r and
\* r otherwise, and no later allocation of the key (absent release) returns
\* a nonce <= n.
C7_PushAdvancesAndProtects ==
  \A c \in ChainIDs, a \in NormalizedAddresses :
    LET L == KeyLog(c, a) IN
    \A i \in 1..Len(L) :
      (L[i].op = "push" /\ L[i].before # {}) =>
        /\ \A r \in L[i].before :
             L[i].after = {IF L[i].nonce >= r THEN L[i].nonce + 1 ELSE r}
        /\ \A j \in (i + 1)..Len(L) :
             (L[j].op = "allocate" /\ NoReleaseBetween(L, i, j))
               => L[j].nonce > L[i].nonce

(***************************************************************************)
(* Properties of saveTransaction and broadcastSignedTransaction.           *)
(***************************************************************************)
\* The step is the successful cache write of the call.
Writes(call) ==
  /\ call.pc = "write"
  /\ saveCalls' = Advanced(call, [call EXCEPT !.pc = "emit"])

\* No other save wrote the call's hash since the call read it, as when the
\* saves of a hash run one after another.
ReadIsCurrent(call) ==
  call.existing = Cached(dbTransactions, call.transaction.hash)

\* The fields a saveTransaction call carries: those of its transaction and
\* its dataSource argument.
Carried(call) == DOMAIN call.transaction \cup {"dataSource"}

\* C8: when saves of a hash run one after another, a field the cached record
\* holds and the saved view does not carry is in the persisted record with
\* the same value.
C8_SequentialSaveKeepsFields ==
  [][\A call \in InFlight :
       (Writes(call) /\ ReadIsCurrent(call)) =>
         \A e \in call.existing :
           \A f \in DOMAIN e \ Carried(call) :
             /\ call.transaction.hash \in DOMAIN dbTransactions'
             /\ f \in DOMAIN dbTransactions'[call.transaction.hash]
             /\ dbTransactions'[call.transaction.hash][f] = e[f]]_vars

\* A view with only hash, from and to was saved alone over a cached record
\* with a block hash, and the cache still holds the block hash.
C8_Witness ==
  \E call \in InFlight :
    /\ BagCardinality(saveCalls) = 1
    /\ call.pc = "emit"
    /\ call.error = {}
    /\ call.transaction = PartialView(call.transaction.hash)
    /\ \E e \in call.existing : HasBlockData(e)
    /\ HasBlockData(dbTransactions[call.transaction.hash])

\* C9: once the cached record of a hash carries block data or receipt
\* fields, no later save of an unconfirmed view (one whose blockHash is null
\* included) leaves the cached record without them.
C9_ConfirmedRecordNeverRegresses ==
  [][\A call \in InFlight :
       (Writes(call) /\ ReadIsCurrent(call)) =>
         \A e \in call.existing :
           LET saved == dbTransactions'[call.transaction.hash] IN
           /\ HasBlockData(e) => HasBlockData(saved)
           /\ "status" \in DOMAIN e =>
                "status" \in DOMAIN saved /\ saved.status = e.status]_vars

\* C10: if sendTransaction fails, the cache holds no copy of the transaction
\* written with source "local".
C10_NoLocalCopyAfterFailedSend ==
  \A h \in Hashes :
    broadcasts[h].send = "failed" =>
      ~(h \in DOMAIN dbTransactions /\ dbTransactions[h].dataSource = "local")

PublishedFor(hash) ==
  \E event \in transactionEvent : event.transaction.hash = hash

C13_FirstErrorIsRethrown ==
  \A o \in saveOutcome : o.kept = {"persist"} => o.thrown = {"persist"}

(***************************************************************************)
(* Properties of the retrieval queue.                                      *)
(***************************************************************************)
\* C14: the retrieval queue never holds a hash twice, whether the hash comes
\* from queueTransactionHashToRetrieve or from the re-enqueue after a failed
\* retrieval.
C14_QueueHasNoDuplicates ==
  \A h \in Range(HashNames) : Occurrences(transactionsToRetrieve, h) <= 1

\* A hash was enqueued twice in a row, a retrieval has failed, and the queue
\* holds the hash once.
C14_Witness ==
  \E h \in Range(HashNames) :
    /\ enqueueCalls[h].sinceTaken = 2
    /\ queueCounters.failures > 0
    /\ Occurrences(transactionsToRetrieve, h) = 1

\* C15: a hash enqueued twice with no drain in between is taken by one alarm
\* invocation, which starts exactly one node lookup for it and leaves no
\* entry of it in the queue for another invocation.
C15_EnqueuedTwiceDrainedOnce ==
  [][\A h \in Range(HashNames) :
       (enqueueCalls[h].sinceTaken = 2 /\ enqueueCalls'[h].sinceTaken = 0) =>
         /\ Occurrences(toHandle', h) = 1
         /\ RetrievalsOf(retrievals', h) = RetrievalsOf(retrievals, h) + 1
         /\ h \notin Range(transactionsToRetrieve')]_vars

\* A hash enqueued twice has been taken and its one lookup is in flight.
C15_Witness ==
  \E h \in Range(HashNames) :
    /\ enqueueCalls[h].beforeTaken = 2
    /\ RetrievalsOf(retrievals, h) = 1
    /\ h \notin Range(transactionsToRetrieve)

\* C16: an alarm invocation takes the first min(5, queue length) hashes of
\* the queue in their order, starts one retrieval for each of them and no
\* other, and leaves the rest of the queue in its order.
C16_AlarmTakesHeadOfQueue ==
  [][(\/ toHandle' # <<>>
      \/ Len(transactionsToRetrieve') < Len(transactionsToRetrieve)) =>
       LET queue == transactionsToRetrieve
           n == IF Len(queue) < 5 THEN Len(queue) ELSE 5
       IN /\ toHandle' = SubSeq(queue, 1, n)
          /\ transactionsToRetrieve' = SubSeq(queue, n + 1, Len(queue))
          /\ BagCardinality(retrievals') = BagCardinality(retrievals) + n
          /\ \A i \in 1..n :
               RetrievalsOf(retrievals', queue[i]) =
                 RetrievalsOf(retrievals, queue[i]) + 1]_vars

\* An alarm has taken five hashes and left the sixth in the queue.
C16_Witness ==
  /\ Len(toHandle) = 5
  /\ transactionsToRetrieve = <<HashNames[6]>>

\* C17: every hash ever enqueued is in the queue, in flight in a retrieval,
\* or saved to the cache: a failed retrieval puts its hash back.
C17_NoHashDropped ==
  \A h \in everEnqueued :
    \/ h \in Range(transactionsToRetrieve)
    \/ RetrievalsOf(retrievals, h) > 0
    \/ h \in DOMAIN dbTransactions

\* The one hash enqueued is back in the queue after its retrieval failed
\* before anything was saved.
C17_Witness ==
  \E h \in everEnqueued :
    /\ queueCounters.external = 1
    /\ queueCounters.failures > 0
    /\ h \in Range(transactionsToRetrieve)
    /\ RetrievalsOf(retrievals, h) = 0
    /\ h \notin DOMAIN dbTransactions

(***************************************************************************)
(* Properties of the asset transfer loaders.                               *)
(***************************************************************************)
\* The loader calls of a kind, in flight or settled by the last step, with
\* the scans each has made.
CallsOfKind(kind) ==
  {[endBlock |-> l.endBlock, oldest |-> l.oldest, newest |-> l.newest,
    scans |-> l.scans, pc |-> l.pc, result |-> "none"] :
     l \in {x \in InLoad : x.kind = kind}} \cup
  {[endBlock |-> o.endBlock, oldest |-> o.oldest, newest |-> o.newest,
    scans |-> o.scans, pc |-> "settled", result |-> o.result] :
     o \in {x \in loadOutcome : x.kind = kind}}

AllFailed(scans) == \A i \in DOMAIN scans : scans[i].result = "failed"

\* C18: loadRecentAssetTransfers makes at most three attempts, all ending at
\* currentHeight - 20 and starting 128,000, then 64,000, then 32,000 blocks
\* earlier; an attempt is made only after every earlier one failed, and a
\* successful attempt is the last.
C18_RecentLoadBacksOff ==
  \A c \in CallsOfKind("recent") :
    /\ Len(c.scans) <= 3
    /\ c.scans # <<>> => \E height \in Heights : c.endBlock = {height - 20}
    /\ \A i \in DOMAIN c.scans :
         /\ c.endBlock = {c.scans[i].endBlock}
         /\ c.scans[i].startBlock =
              c.scans[i].endBlock -
                (CASE i = 1 -> 128000 [] i = 2 -> 64000 [] i = 3 -> 32000)
         /\ i < Len(c.scans) => c.scans[i].result = "failed"
         /\ c.scans[i].result = "ok" => c.pc = "settled"
         /\ c.scans[i].result = "pending" => c.pc # "settled"

\* A recent load has ended with its third attempt, the first to succeed.
C18_Witness ==
  \E c \in CallsOfKind("recent") :
    /\ c.pc = "settled"
    /\ Len(c.scans) = 3
    /\ c.scans[3].result = "ok"
    /\ c.scans[3].startBlock = 2000000 - 32000

\* C19: when its three attempts have all failed, loadRecentAssetTransfers
\* returns normally, and no call is rejected by that step.
C19_ThreeFailuresRaiseNothing ==
  (\E c \in CallsOfKind("recent") :
     c.pc = "settled" /\ Len(c.scans) = 3 /\ AllFailed(c.scans)) =>
    \A o \in loadOutcome : o.result = "resolved"

\* A recent load has ended after three failed attempts.
C19_Witness ==
  \E c \in CallsOfKind("recent") :
    /\ c.pc = "settled"
    /\ Len(c.scans) = 3
    /\ AllFailed(c.scans)
    /\ c.result = "resolved"

\* The calls of loadHistoricAssetTransfers that have read both the oldest
\* and the newest lookup of their address and found them recorded.
HistoricWithSpan ==
  {c \in CallsOfKind("historic") :
     c.pc \notin {"oldest", "newest"} /\ c.oldest # {} /\ c.newest # {}}

Span(c) ==
  (CHOOSE n \in c.newest : TRUE) - (CHOOSE o \in c.oldest : TRUE)

\* C20: loadHistoricAssetTransfers with a recorded span of 128,000 * 10 or
\* more makes no scan (no getAssetTransfers call, and the step in which it
\* returns writes no watermark and publishes no event); with a smaller span
\* it scans exactly the window [oldest - 128,000, oldest].
C20_HistoricCap ==
  [][\A c \in HistoricWithSpan' :
       IF Span(c) >= 128000 * 10
       THEN /\ c.scans = <<>>
            /\ c.pc = "settled"
            /\ assetTransferLookups' = assetTransferLookups
            /\ assetTransfersEvent' = {}
       ELSE /\ Len(c.scans) = 1
            /\ c.scans[1].endBlock \in c.oldest
            /\ c.scans[1].startBlock = c.scans[1].endBlock - 128000]_vars

\* A historic load has found the span at the cap and returned without a scan.
C20_Witness ==
  \E c \in HistoricWithSpan :
    /\ Span(c) = 128000 * 10
    /\ c.scans = <<>>
    /\ c.result = "resolved"

\* C21: for every account, whatever window the recent load succeeded with,
\* the recorded span newest - oldest never exceeds 128,000 * 10 blocks.
C21_SpanNeverExceedsCap ==
  \A a \in DOMAIN assetTransferLookups :
    \A o \in getOldestAccountAssetTransferLookup(assetTransferLookups, a),
       n \in getNewestAccountAssetTransferLookup(assetTransferLookups, a) :
      n - o <= BLOCKS_FOR_TRANSACTION_HISTORY *
                 HISTORIC_ASSET_TRANSFER_LOOKUPS_PER_ACCOUNT

\* The window of the scan a call is suspended on.
PendingScan(l) == l.scans[Len(l.scans)]

\* The calls that issue a scan in this step: suspended on getAssetTransfers
\* after the step and not before it.
IssuedScans ==
  {l \in InLoad' : l.pc = "fetch" /\ CopiesIn(l, loads') > CopiesIn(l, loads)}

\* C22: under any interleaving of historic alarms, recent loads and their
\* retries, the recorded interval of an address only grows (oldest never
\* increases, newest never decreases), no scan is issued for a window inside
\* the interval already recorded for its address, and no scan is issued for
\* the window another call is scanning for the same address.
C22_WatermarkGrowsAndNoRescan ==
  [][/\ \A a \in DOMAIN assetTransferLookups :
          /\ a \in DOMAIN assetTransferLookups'
          /\ assetTransferLookups'[a].oldest <= assetTransferLookups[a].oldest
          /\ assetTransferLookups'[a].newest >= assetTransferLookups[a].newest
     /\ \A l \in IssuedScans :
          /\ l.address \in DOMAIN assetTransferLookups =>
               ~(/\ assetTransferLookups[l.address].oldest <=
                      PendingScan(l).startBlock
                 /\ PendingScan(l).endBlock <=
                      assetTransferLookups[l.address].newest)
          /\ \A other \in InLoad :
               (other.pc \in {"fetch", "record"} /\
                  other.address = l.address) =>
                 PendingScan(other).startBlock # PendingScan(l).startBlock \/
                 PendingScan(other).endBlock # PendingScan(l).endBlock]_vars

(***************************************************************************)
(* Properties of populatePartialEVMTransactionRequest.                     *)
(***************************************************************************)

\* C23: when the estimation succeeds with the node's estimate e, the request
\* returned has gasLimit e + e/10 (110,000 for 100,000) if the caller's
\* gasLimit is unset or below 21,000, and the caller's gasLimit if that is
\* 21,000 or more.
C23_GasLimitFromEstimateOrCaller ==
  \A o \in populateOutcome :
    o.estimation.ok =>
      LET e == o.estimation.estimate
          caller == o.partialRequest.gasLimit
          returned == o.transactionRequest.gasLimit
      IN
      /\ (caller = {} \/ \E g \in caller : g < 21000) =>
           /\ returned = e + (e \div 10)
           /\ e = 100000 => returned = 110000
      /\ (\E g \in caller : g >= 21000) => caller = {returned}

\* A request with gasLimit 5,000 has been populated with an estimate of
\* 100,000 and carries 110,000.
C23_Witness ==
  \E o \in populateOutcome :
    /\ o.estimation.ok
    /\ o.estimation.estimate = 100000
    /\ o.partialRequest.gasLimit = {5000}
    /\ o.transactionRequest.gasLimit = 110000

\* The estimation failed with an Error whose code is UNPREDICTABLE_GAS_LIMIT.
UnpredictableGas(estimation) ==
  /\ ~estimation.ok
  /\ estimation.error.isError
  /\ estimation.error.code = {"UNPREDICTABLE_GAS_LIMIT"}

\* C24: when the estimation fails as unpredictable gas, the call returns a
\* request with a defined warning (gasEstimationError), the gasLimit being
\* the caller's, or 0 if the caller gave none; when the estimation succeeds
\* the warning is undefined.
C24_UnpredictableGasIsAWarning ==
  \A o \in populateOutcome :
    /\ UnpredictableGas(o.estimation) =>
         /\ o.gasEstimationError # {}
         /\ o.transactionRequest.gasLimit =
              (IF o.partialRequest.gasLimit = {} THEN 0
               ELSE CHOOSE g \in o.partialRequest.gasLimit : TRUE)
    /\ o.estimation.ok => o.gasEstimationError = {}

\* A request with gasLimit 5,000 has been returned with a warning after an
\* unpredictable-gas failure that carried no error property.
C24_Witness ==
  \E o \in populateOutcome :
    /\ UnpredictableGas(o.estimation)
    /\ o.estimation.error.error = {}
    /\ o.partialRequest.gasLimit = {5000}
    /\ o.transactionRequest.gasLimit = 5000
    /\ o.gasEstimationError = {"unknown transaction error"}

\* C25: a step of populatePartialEVMTransactionRequest leaves the nonce
\* table unchanged, the request it returns carries the nonce of the partial
\* request (none if it carried none), and the table changes only in a step
\* of a nonce operation (one that completes, or populateEVMTransactionNonce
\* as it suspends on the node's count).
C25_PopulateNeverAllocates ==
  [][/\ populateCalls' # populateCalls =>
          /\ evmChainLastSeenNoncesByNormalizedAddress' =
               evmChainLastSeenNoncesByNormalizedAddress
          /\ \A o \in populateOutcome' :
               o.transactionRequest.nonce = o.partialRequest.nonce
     /\ evmChainLastSeenNoncesByNormalizedAddress' #
          evmChainLastSeenNoncesByNormalizedAddress =>
          /\ populateCalls' = populateCalls
          /\ \/ Len(nonceLog') > Len(nonceLog)
             \/ awaitingTransactionCount' # awaitingTransactionCount]_vars

\* A request without a nonce has been populated, with a successful
\* estimation, while the table held a record for its account.
C25_Witness ==
  \E o \in populateOutcome :
    /\ o.estimation.ok
    /\ o.partialRequest.nonce = {}
    /\ o.transactionRequest.nonce = {}
    /\ HasRecord(evmChainLastSeenNoncesByNormalizedAddress, o.chainID,
                 normalizeEVMAddress(o.partialRequest.from))

(***************************************************************************)
(* Properties of the subscription handlers.                                *)
(***************************************************************************)

\* C26: for the new-heads handler and for the pending-transaction handler,
\* an error raised while one message is normalized, cached or saved is
\* caught inside the handler: no invocation ends with an error leaving it.
C26_HandlerErrorsAreCaught ==
  \A o \in pushOutcome : o.propagated = {}

\* C27: whenever the cache holds a transaction without block data, a
\* confirmation watch for its hash is armed or has already fired.
C27_PendingTransactionsAreWatched ==
  \A h \in DOMAIN dbTransactions :
    ~HasBlockData(dbTransactions[h]) =>
      \/ \E t \in WatchedTransactions :
           t.hash = h /\ confirmationWatches[t] > 0
      \/ h \in firedWatches

(***************************************************************************)
(* Properties of getTransaction.                                           *)
(***************************************************************************)

\* C28: getTransaction returns the cached transaction only if it is
\* confirmed; a transaction that is not cached, or cached without block
\* data, is retrieved from the network and the retrieved object is returned.
C28_CachedReturnedOnlyIfConfirmed ==
  \A o \in getOutcome :
    o.source = "cache" => \A t \in o.returned : HasBlockData(t)

(***************************************************************************)
(* Properties of loadAssetTransfers.                                       *)
(***************************************************************************)

\* The calls whose getAssetTransfers succeeded and whose loadAssetTransfers
\* returns in this step.
RecordedScans ==
  {l \in InLoad : l.pc = "record" /\ CopiesIn(l, loads') < CopiesIn(l, loads)}

\* The calls whose getAssetTransfers is rejected in this step.
FailedFetches ==
  {l \in InLoad :
     /\ l.pc = "fetch"
     /\ CopiesIn(l, loads') < CopiesIn(l, loads)
     /\ \A next \in InLoad' :
          next.pc = "record" => CopiesIn(next, loads') <= CopiesIn(next, loads)}

\* C29: the watermark is written, an assetTransfers event is published and
\* hashes are queued only in the step in which a loadAssetTransfers call
\* whose getAssetTransfers succeeded has its lookup recorded: the watermark
\* then covers the scanned window, exactly one event carries the fetched
\* transfers, and the hash of every transfer is in the queue, behind what
\* was queued before. A step in which the fetch fails changes none of them.
C29_RecordThenPublishThenEnqueue ==
  [][/\ (\/ assetTransferLookups' # assetTransferLookups
         \/ assetTransfersEvent' # {}
         \/ transactionsToRetrieve' # transactionsToRetrieve) =>
          \E l \in RecordedScans :
            /\ l.address \in DOMAIN assetTransferLookups'
            /\ assetTransferLookups'[l.address].oldest <=
                 PendingScan(l).startBlock
            /\ assetTransferLookups'[l.address].newest >=
                 PendingScan(l).endBlock
            /\ assetTransfersEvent' =
                 {[address |-> l.address, assetTransfers |-> l.transfers]}
            /\ Range(l.transfers) \subseteq Range(transactionsToRetrieve')
            /\ Len(transactionsToRetrieve') >= Len(transactionsToRetrieve)
            /\ SubSeq(transactionsToRetrieve', 1,
                      Len(transactionsToRetrieve)) = transactionsToRetrieve
     /\ FailedFetches # {} =>
          /\ assetTransferLookups' = assetTransferLookups
          /\ assetTransfersEvent' = {}
          /\ transactionsToRetrieve' = transactionsToRetrieve]_vars

\* A scan that found two transfers has been recorded: the event carries
\* both and both hashes are queued.
C29_Witness ==
  /\ \E a \in DOMAIN assetTransferLookups :
       assetTransfersEvent =
         {[address |-> a, assetTransfers |-> <<"0xh1", "0xh2">>]}
  /\ transactionsToRetrieve = <<"0xh1", "0xh2">>

(***************************************************************************)
(* Interleaved saves of one hash.                                          *)
(***************************************************************************)

\* C30: however the saveTransaction calls of a hash interleave at their
\* cache read and cache write, a write loses no known field: a field the
\* cached record holds, with a value other than null, just before the write
\* and the written view does not carry is in the record after the write,
\* with the same value.
C30_InterleavedSavesKeepFields ==
  [][\A call \in InFlight :
       Writes(call) =>
         \A prior \in Cached(dbTransactions, call.transaction.hash) :
           \A f \in DOMAIN prior \ Carried(call) :
             prior[f] # "null" =>
               /\ f \in DOMAIN dbTransactions'[call.transaction.hash]
               /\ dbTransactions'[call.transaction.hash][f] = prior[f]]_vars

(***************************************************************************)
(* The one-shot confirmation watch.                                        *)
(***************************************************************************)

\* The saveTransaction call the callback of the watch on the transaction
\* starts when the receipt is delivered.
WatchSave(transaction) ==
  NewCall(enrichTransactionWithReceipt(transaction, Receipt),
          "alchemy", "watch")

\* The step publishes the event of the call and the call settles.
Emits(call) ==
  /\ call.pc = "emit"
  /\ saveCalls' = Settled(call)
  /\ transactionEvent' # {}

\* The record carries the fields of the receipt.
CarriesReceipt(record) ==
  /\ {"gasUsed", "status", "blockHash", "blockHeight"} \subseteq DOMAIN record
  /\ record.gasUsed = Receipt.gasUsed
  /\ record.status = Receipt.status
  /\ record.blockHash = Receipt.blockHash
  /\ record.blockHeight = Receipt.blockNumber

\* The transactions of which the step consumes an armed watch.
ConsumedWatches ==
  {t \in WatchedTransactions :
     confirmationWatches'[t] < confirmationWatches[t]}

\* The saveTransaction calls a watch callback starts in the step.
StartedWatchSaves ==
  {call \in BagToSet(saveCalls') :
     /\ call.caller = "watch"
     /\ call.pc = "read"
     /\ CopiesIn(call, saveCalls') > CopiesIn(call, saveCalls)}

\* C31: a confirmation watch fires at most once per arming and only on
\* receipt delivery. A step lowers the number of armed watches of a
\* transaction only by one and only while starting the save of the
\* transaction enriched with the receipt; such a save starts only in a step
\* that consumes one armed watch of its transaction, and that step arms
\* none. The write of that save leaves the receipt fields in the cached
\* record, and its event carries them.
C31_WatchFiresOncePerArming ==
  [][/\ \A t \in ConsumedWatches :
          /\ confirmationWatches'[t] = confirmationWatches[t] - 1
          /\ WatchSave(t) \in StartedWatchSaves
     /\ \A call \in StartedWatchSaves :
          \E t \in ConsumedWatches :
            /\ call = WatchSave(t)
            /\ confirmationWatches' =
                 [confirmationWatches EXCEPT ![t] = @ - 1]
     /\ \A call \in InFlight :
          call.caller = "watch" =>
            /\ Writes(call) =>
                 CarriesReceipt(dbTransactions'[call.transaction.hash])
            /\ Emits(call) =>
                 \A event \in transactionEvent' :
                   CarriesReceipt(event.transaction)]_vars

\* The watch of a broadcast transaction has fired and is consumed; the
\* cached record and the republished event carry the receipt.
C31_Witness ==
  /\ "0xh1" \in firedWatches
  /\ confirmationWatches[PendingView("0xh1")] = 0
  /\ "0xh1" \in DOMAIN dbTransactions
  /\ CarriesReceipt(dbTransactions["0xh1"])
  /\ \E event \in transactionEvent : CarriesReceipt(event.transaction)

(***************************************************************************)
(* What a retrieval does with the transaction it fetched.                  *)
(***************************************************************************)

\* The step is one in which the retrieval leaves the given await without
\* throwing.
RetrievalPasses(retrieval, pc) ==
  /\ retrieval.pc = pc
  /\ CopiesIn(retrieval, retrievals') < CopiesIn(retrieval, retrievals)
  /\ queueCounters'.failures = queueCounters.failures

\* C32: a retrieval saves the fetched transaction first. The step in which
\* its save resolves leaves the transaction in the cache and then either
\* arms the confirmation watch of a transaction without block data and ends
\* the retrieval, or sends one with a blockHash on to its block lookup and
\* arms nothing; it requests no receipt. The step in which the block lookup
\* resolves caches the block and requests the receipt of a transaction that
\* was mined and is in the cache, and arms nothing. Watches, cached blocks
\* and receipt requests change in no other step.
C32_SaveThenWatchOrReceipt ==
  [][/\ \A r \in InRetrieval :
          RetrievalPasses(r, "save") =>
            LET transaction == RetrievedTransaction(r) IN
            /\ r.hash \in DOMAIN dbTransactions'
            /\ receiptRetrievals' = receiptRetrievals
            /\ dbBlocks' = dbBlocks
            /\ IF ~HasBlockData(transaction)
               THEN /\ confirmationWatches' =
                         ArmedWatch(confirmationWatches, transaction)
                    /\ retrievals' = Finished(r)
               ELSE /\ confirmationWatches' = confirmationWatches
                    /\ retrievals' =
                         Continued(r, [r EXCEPT !.pc = "block"])
     /\ \A r \in InRetrieval :
          RetrievalPasses(r, "block") =>
            /\ r.mined
            /\ r.hash \in DOMAIN dbTransactions
            /\ RetrievedTransaction(r).blockHash \in dbBlocks'
            /\ r.hash \in receiptRetrievals'
            /\ confirmationWatches' = confirmationWatches
            /\ retrievals' = Finished(r)
     /\ confirmationWatches' # confirmationWatches =>
          \E r \in InRetrieval : RetrievalPasses(r, "save") /\ ~r.mined
     /\ (receiptRetrievals' # receiptRetrievals \/ dbBlocks' # dbBlocks) =>
          \E r \in InRetrieval : RetrievalPasses(r, "block")]_vars

\* One hash was fetched pending and has its watch and no receipt request;
\* another was fetched mined and has its receipt request and no watch.
C32_Witness ==
  /\ {"0xh1", "0xh2"} \subseteq DOMAIN dbTransactions
  /\ confirmationWatches[PendingView("0xh1")] = 1
  /\ "0xh1" \notin receiptRetrievals
  /\ confirmationWatches[PendingView("0xh2")] = 0
  /\ "0xh2" \in receiptRetrievals
  /\ "0xb1" \in dbBlocks

(***************************************************************************)
(* Properties of the new-heads handler.                                    *)
(***************************************************************************)

\* The step is one in which db.addBlock(block) of an invocation resolves.
AddsHead(block) ==
  /\ CopiesIn(block, headCalls') < CopiesIn(block, headCalls)
  /\ \A o \in pushOutcome' : o.propagated = {}

\* C33: a block event is published only in the step in which the write of
\* its block to the cache has resolved, and the cache then holds the block.
\* Every pushed block whose write resolves is cached and published,
\* whatever blocks the cache already holds, and no step removes a block
\* from the cache.
C33_BlockCachedThenPublished ==
  [][/\ \A block \in blockEvent' :
          /\ AddsHead(block)
          /\ block.hash \in dbBlocks'
     /\ \A block \in HeadBlocks :
          AddsHead(block) =>
            /\ blockEvent' = {block}
            /\ dbBlocks' = dbBlocks \cup {block.hash}
     /\ dbBlocks \subseteq dbBlocks']_vars

\* The block 0xb1 at height 100 is published while the cache already holds
\* 0xb2 at the same height and 0xb3 at height 101.
C33_Witness ==
  /\ blockEvent = {[hash |-> "0xb1", blockHeight |-> 100]}
  /\ {"0xb1", "0xb2", "0xb3"} \subseteq dbBlocks
  /\ BagCardinality(headCalls) = 1

(***************************************************************************)
(* The accounts a transaction event is published for.                      *)
(***************************************************************************)

\* The address is the transaction's from or to, ignoring letter case.
Implicated(address, transaction) ==
  \/ toLowerCase(address) = toLowerCase(transaction.from)
  \/ /\ "to" \in DOMAIN transaction
     /\ toLowerCase(address) = toLowerCase(transaction.to)

\* C34: the event a saveTransaction call publishes carries the merge of the
\* cached record the call read and the saved view, and its forAccounts are
\* exactly the lower-cased addresses of the tracked accounts that are the
\* merged transaction's from or to, ignoring letter case.
C34_EventForImplicatedAccounts ==
  [][\A call \in InFlight :
       Emits(call) =>
         \A event \in transactionEvent' :
           /\ event.transaction = MergeOver(call.existing, call.transaction)
           /\ event.forAccounts \subseteq
                {toLowerCase(a) : a \in AccountsToTrack}
           /\ \A a \in AccountsToTrack :
                toLowerCase(a) \in event.forAccounts <=>
                  Implicated(a, event.transaction)]_vars

\* An event is published for the sender, tracked in the spelling of the
\* transaction, and for the recipient, tracked in lower case, and not for
\* the tracked account that is neither.
C34_Witness ==
  \E event \in transactionEvent :
    /\ event.transaction.from = "0xAB"
    /\ event.transaction.to = "0xCD"
    /\ event.forAccounts = {"0xab", "0xcd"}
    /\ {"0xAB", "0xcd", "0xEF"} \subseteq AccountsToTrack

(***************************************************************************)
(* Allocation after a pending push.                                        *)
(***************************************************************************)

\* The nonces of a key's log that precede place j: those allocated and those
\* of the pushes that found the key's record defined.
NoncesBefore(L, j) ==
  {L[i].nonce : i \in {i \in 1..(j - 1) :
     \/ L[i].op = "allocate"
     \/ L[i].op = "push" /\ L[i].before # {}}}

\* Before place j the key was seeded by one call and nothing was released.
SeededOnceNoRelease(L, j) ==
  /\ Cardinality({i \in 1..(j - 1) :
                    L[i].op = "allocate" /\ L[i].reported # {}}) = 1
  /\ \A i \in 1..(j - 1) : ~IsRelease(L[i])

\* C35: absent release, an allocation on a key with a record returns exactly
\* one more than the highest nonce allocated to the key, or seen in a pending
\* push of the key, before it.
C35_AllocationNeverSkips ==
  \A c \in ChainIDs, a \in NormalizedAddresses :
    LET L == KeyLog(c, a) IN
    \A j \in 1..Len(L) :
      (IsAtomicAllocate(L[j]) /\ SeededOnceNoRelease(L, j)) =>
        /\ L[j].nonce - 1 \in NoncesBefore(L, j)
        /\ \A n \in NoncesBefore(L, j) : n < L[j].nonce

(***************************************************************************)
(* Release of a nonce that was not allocated.                              *)
(***************************************************************************)

\* The release names no allocated nonce: the key has no record, or the nonce
\* is above the record.
ReleasesUnallocated(e) ==
  /\ IsRelease(e)
  /\ \A lastSeenNonce \in e.before : e.nonce > lastSeenNonce

\* C36: a releaseEVMTransactionNonce call that names no allocated nonce
\* returns without throwing and leaves the record of its key as it was.
C36_ReleaseOfUnallocatedIsNoOp ==
  \A i \in 1..Len(nonceLog) :
    LET e == nonceLog[i] IN
    ReleasesUnallocated(e) => e.op = "release" /\ e.after = e.before


(***************************************************************************)
(* C37                                                                     *)
(***************************************************************************)

\* C37: a hash an alarm has taken and whose retrieval has not completed is
\* not fetched a second time: whatever calls of queueTransactionHashToRetrieve
\* arrive meanwhile, at most one retrieval is in flight for a hash.
C37_HashInFlightNotFetchedAgain ==
  \A h \in Range(HashNames) : RetrievalsOf(retrievals, h) <= 1


(***************************************************************************)
(* C38                                                                     *)
(***************************************************************************)

\* C38: the step in which loadRecentAssetTransfers returns after its third
\* failed attempt records no watermark; a loadHistoricAssetTransfers call
\* for an address without a watermark issues no scan; and an address gets
\* its first watermark only from a loadRecentAssetTransfers call, that is,
\* after it has been registered again.
C38_AbandonedAddressIsNeverBackfilled ==
  [][/\ abandonedRecentLoads' # abandonedRecentLoads =>
          assetTransferLookups' = assetTransferLookups
     /\ \A l \in IssuedScans :
          l.kind = "historic" => l.address \in DOMAIN assetTransferLookups
     /\ \A a \in DOMAIN assetTransferLookups' :
          a \notin DOMAIN assetTransferLookups =>
            \E o \in loadOutcome' :
              o.kind = "recent" /\ o.address = a /\ o.result = "resolved"
    ]_vars

\* After the recent load of an address was abandoned, a historic load of the
\* address has found no lookup recorded and returned without a scan.
C38_Witness ==
  \E o \in loadOutcome :
    /\ o.kind = "historic"
    /\ o.address \in abandonedRecentLoads
    /\ o.address \notin DOMAIN assetTransferLookups
    /\ o.oldest = {} /\ o.newest = {}
    /\ o.scans = <<>>
    /\ o.result = "resolved"


(***************************************************************************)
(* C39                                                                     *)
(***************************************************************************)

\* The scans made by the loader calls in flight and by the call the last
\* step settled.
ScansMade ==
  UNION {Range(l.scans) : l \in InLoad} \cup
  UNION {Range(o.scans) : o \in loadOutcome}

\* C39: every scan issued by loadRecentAssetTransfers and
\* loadHistoricAssetTransfers has 0 <= startBlock <= endBlock, also on a
\* chain shorter than the 128,000-block window.
C39_ScanWindowsAreWellFormed ==
  \A scan \in ScansMade :
    0 <= scan.startBlock /\ scan.startBlock <= scan.endBlock


(***************************************************************************)
(* C40                                                                     *)
(***************************************************************************)

\* C40: connectLedger resolves with the id of the ledger established by the
\* connection it triggers: the value is not undefined, the call has started
\* an onConnection call, and that call is the one that assigned the current
\* ledger id (not an earlier one), under any interleaving with USB connect
\* and disconnect events.
C40_ConnectLedgerReturnsItsLedgerId ==
  \A o \in connectOutcome :
    o.result = "resolved" =>
      /\ o.value # {}
      /\ o.triggered # {}
      /\ o.setBy = o.triggered

====
